---- MODULE Spec2Model ----
(***************************************************************************)
(* Model of the prog item store (internal/db): items, dependency edges,   *)
(* epic status derivation (deriveFromChildren) and the SQL dependency     *)
(* resolution predicate (depUnresolvedExpr) with the queries built on it. *)
(***************************************************************************)
EXTENDS Integers, Sequences, FiniteSets, Bags, TLC

\* ---- model.Status / model.ItemType values ----
StatusOpen == "open"
StatusInProgress == "in_progress"
StatusBlocked == "blocked"
StatusReviewing == "reviewing"
StatusDone == "done"
StatusCanceled == "canceled"

Statuses == {StatusOpen, StatusInProgress, StatusBlocked, StatusReviewing, StatusDone, StatusCanceled}

ItemTypeTask == "task"
ItemTypeEpic == "epic"
ItemTypes == {ItemTypeTask, ItemTypeEpic}

\* Status.IsValid / ItemType.IsValid
StatusIsValid(s) == s \in Statuses
TypeIsValid(t) == t \in ItemTypes

\* parent_id IS NULL
NoParent == "NULL"

\* ---- bounds of the model ----
\* the items CreateItem is called with: id, type and project of each
\* (ids carry the prefix model.GenerateID gives their type)
Templates ==
    { [id |-> "ep-1", type |-> ItemTypeEpic, project |-> "p1"],
      [id |-> "ts-1", type |-> ItemTypeTask, project |-> "p1"],
      [id |-> "ts-2", type |-> ItemTypeTask, project |-> "p2"] }
IDs == {t.id : t \in Templates}
\* project arguments of the queries; "" means all projects
Projects == {t.project : t \in Templates} \cup {""}
\* most dependency edges held at once
MaxDeps == 2

\* most calls between two of their statements at once
MaxCalls == 2

\* most children of the epic whose status is derived in SpecDerive
MaxChildren == 3
\* rows of the logs table
MaxLogs == 2

\* items: the items table, id -> row; deps: the deps table, <<item_id, depends_on>>;
\* logs: the logs table, the item_id of each row in insertion order;
\* learnings: the learnings table, id -> row; concepts: the concepts table,
\* <<name, project>> -> last_updated; learning_concepts: the association table,
\* <<learning_id, <<name, project>>>>;
\* derived: what the last DeriveEpicStatus call returned;
\* tui: the Model of the terminal UI, with the messages of its commands in flight;
\* calls: the calls of SetParent, AddDep, DeleteItem and UpdateStatus that have
\* run a statement and have another one to run, a bag of
\* [op, pc, args]: the function, the statement it runs next, its arguments
VARIABLES items, deps, logs, learnings, concepts, learning_concepts, derived, tui, calls

\* a nil error
Nil == "nil"

\* the tables CreateLearning writes
learnVars == <<learnings, concepts, learning_concepts>>

vars == <<items, deps, logs, learnVars, derived, tui, calls>>

\* no call made yet
NoResult == "none"

\* ---- the terminal UI (tui.go): values of the Model ----

ViewList == "ViewList"
ViewDetail == "ViewDetail"
FocusList == "FocusList"
FocusDetail == "FocusDetail"

InputNone == "InputNone"
InputBlock == "InputBlock"
InputLog == "InputLog"
InputCancel == "InputCancel"
InputSearch == "InputSearch"
InputProject == "InputProject"
InputLabel == "InputLabel"
InputAddDep == "InputAddDep"
InputCreate == "InputCreate"

\* minimum terminal width for the split view
minSplitWidth == 80

\* New(db): list view, default status filters, everything else zero.
\* items and filtered are the loaded rows in list order, cursor counts from 0,
\* detailLogs and detailDeps are the logs (their number) and the dependencies
\* held for the detail pane; inputText and the three text filters are texts,
\* kept as the sequences of their characters. Three fields are the running
\* program rather than its Model: pending is the bag of the commands whose
\* goroutine has statements to run and of the messages that have not been
\* delivered yet, quit tells that the program has ended, left is the number
\* of inputs the user has yet to make. message, err, height and inputLabel,
\* which only View reads, are left out
New ==
    [items |-> <<>>, filtered |-> <<>>, cursor |-> 0, viewMode |-> ViewList,
     filterStatuses |-> {StatusOpen, StatusInProgress, StatusBlocked, StatusReviewing},
     filterProject |-> <<>>, filterSearch |-> <<>>, filterLabel |-> <<>>,
     width |-> 0, focusPane |-> FocusList, detailLogs |-> 0, detailDeps |-> <<>>,
     detailScroll |-> 0, inputMode |-> InputNone, inputText |-> <<>>,
     pending |-> EmptyBag, quit |-> FALSE, left |-> 0]

Init ==
    /\ items = <<>>
    /\ deps = {}
    /\ logs = <<>>
    /\ learnings = <<>>
    /\ concepts = <<>>
    /\ learning_concepts = {}
    /\ tui = New
    /\ calls = EmptyBag
    /\ derived = NoResult

\* rows of the items table
Rows == DOMAIN items

\* SELECT ... FROM items WHERE parent_id = ?
Children(id) == {c \in Rows : items[c].parent_id = id}


\* ---- status derivation (items.go) ----

\* SELECT status, COUNT(*) FROM items WHERE parent_id = ? GROUP BY status:
\* the count of the row for status s (0 when the group is absent)
ChildCount(epicID, s) == Cardinality({c \in Children(epicID) : items[c].status = s})

\* the statuses the GROUP BY returns a row for
ChildStatusRows(epicID) == {items[c].status : c \in Children(epicID)}

RECURSIVE SumCounts(_, _)
\* total += count over the rows of the GROUP BY result
SumCounts(epicID, rows) ==
    IF rows = {} THEN 0
    ELSE LET r == CHOOSE x \in rows : TRUE
         IN ChildCount(epicID, r) + SumCounts(epicID, rows \ {r})

\* deriveFromChildren with one of its rules changed: without the manual override,
\* with open for an epic without children, with progress tested before blocked,
\* or without done counting as progress
DeriveVariant(epicID, storedStatus, override, emptyIsOpen, progressFirst, doneIsProgress) ==
    LET kids == Children(epicID)
        unresolved == {c \in kids : items[c].status \notin {StatusDone, StatusCanceled}}
        blocked == \A c \in unresolved : items[c].status = StatusBlocked
        progress == \E c \in kids :
                        \/ items[c].status \in {StatusInProgress, StatusReviewing}
                        \/ (doneIsProgress /\ items[c].status = StatusDone)
    IN IF override /\ storedStatus \in {StatusDone, StatusCanceled} THEN storedStatus
       ELSE IF kids = {} THEN (IF emptyIsOpen THEN StatusOpen ELSE storedStatus)
       ELSE IF unresolved = {} THEN StatusDone
       ELSE IF progressFirst /\ progress THEN StatusInProgress
       ELSE IF blocked THEN StatusBlocked
       ELSE IF progress THEN StatusInProgress
       ELSE StatusOpen

deriveFromChildren_noOverride(epicID, storedStatus) ==
    DeriveVariant(epicID, storedStatus, FALSE, FALSE, FALSE, TRUE)

deriveFromChildren_emptyIsOpen(epicID, storedStatus) ==
    DeriveVariant(epicID, storedStatus, TRUE, TRUE, FALSE, TRUE)

deriveFromChildren_progressFirst(epicID, storedStatus) ==
    DeriveVariant(epicID, storedStatus, TRUE, FALSE, TRUE, TRUE)

deriveFromChildren_doneNotProgress(epicID, storedStatus) ==
    DeriveVariant(epicID, storedStatus, TRUE, FALSE, FALSE, FALSE)

\* deriveFromChildren reading, for a child that is an epic, the status derived
\* from that child's own children instead of the stored one
deriveFromChildren_effectiveChildren(epicID, storedStatus) ==
    LET eff(c) == IF items[c].type = ItemTypeEpic /\ c # epicID
                  THEN DeriveVariant(c, items[c].status, TRUE, FALSE, FALSE, TRUE)
                  ELSE items[c].status
        kids == Children(epicID)
        unresolved == {c \in kids : eff(c) \notin {StatusDone, StatusCanceled}}
    IN IF storedStatus \in {StatusDone, StatusCanceled} THEN storedStatus
       ELSE IF kids = {} THEN storedStatus
       ELSE IF unresolved = {} THEN StatusDone
       ELSE IF \A c \in unresolved : eff(c) = StatusBlocked THEN StatusBlocked
       ELSE IF \E c \in kids : eff(c) \in {StatusInProgress, StatusReviewing, StatusDone}
           THEN StatusInProgress
       ELSE StatusOpen

\* deriveFromChildren taking a stored done as override, a stored canceled not
deriveFromChildren_doneOverrideOnly(epicID, storedStatus) ==
    IF storedStatus = StatusDone THEN storedStatus
    ELSE DeriveVariant(epicID, storedStatus, FALSE, FALSE, FALSE, TRUE)

\* deriveFromChildren: the derived status, or an "error: ..." value
deriveFromChildren(epicID, storedStatus) ==
    IF storedStatus = StatusDone \/ storedStatus = StatusCanceled THEN storedStatus
    ELSE IF \E r \in ChildStatusRows(epicID) : r \notin Statuses THEN "error: unknown child status"
    ELSE
      LET total == SumCounts(epicID, ChildStatusRows(epicID))
          open == ChildCount(epicID, StatusOpen)
          done == ChildCount(epicID, StatusDone)
          canceled == ChildCount(epicID, StatusCanceled)
          blocked == ChildCount(epicID, StatusBlocked)
          inProgress == ChildCount(epicID, StatusInProgress)
          reviewing == ChildCount(epicID, StatusReviewing)
          unresolved == total - done - canceled
      IN IF open + done + canceled + blocked + inProgress + reviewing # total
           THEN "error: partition mismatch"
         ELSE IF total = 0 THEN storedStatus
         ELSE IF done + canceled = total THEN StatusDone
         ELSE IF blocked = unresolved THEN StatusBlocked
         ELSE IF inProgress > 0 \/ reviewing > 0 \/ done > 0 THEN StatusInProgress
         ELSE StatusOpen

\* DeriveEpicStatus(epicID): "error: item not found" for a missing row
DeriveEpicStatus(epicID) ==
    IF epicID \notin Rows THEN "error: item not found"
    ELSE IF ~StatusIsValid(items[epicID].status) THEN "error: invalid stored status"
    ELSE IF items[epicID].type # ItemTypeEpic THEN items[epicID].status
    ELSE deriveFromChildren(epicID, items[epicID].status)

\* applyDerivedEpicStatus deriving for every item type
applyDerivedEpicStatus_anyType(id) == deriveFromChildren(id, items[id].status)

\* applyDerivedEpicStatus: the status an Item built from row id carries after the patch
applyDerivedEpicStatus(id) ==
    IF items[id].type # ItemTypeEpic THEN items[id].status
    ELSE deriveFromChildren(id, items[id].status)

\* GetItem(id).Status
GetItem(id) ==
    IF id \notin Rows THEN "error: item not found"
    ELSE applyDerivedEpicStatus(id)

\* ---- dependency resolution (queries.go, deps.go) ----

\* depUnresolvedExpr without the EXISTS (has at least one child) clause
depUnresolvedExpr_noChildCheck(i) ==
    ~( items[i].status \in {StatusDone, StatusCanceled}
       \/ ( /\ items[i].type = ItemTypeEpic
            /\ ~\E c \in Rows : items[c].parent_id = i
                               /\ items[c].status \notin {StatusDone, StatusCanceled} ) )

\* depUnresolvedExpr on the stored status alone
depUnresolvedExpr_storedOnly(i) ==
    ~( items[i].status \in {StatusDone, StatusCanceled} )

\* depUnresolvedExpr with done as the only resolving stored status
depUnresolvedExpr_doneOnly(i) ==
    ~( items[i].status \in {StatusDone}
       \/ ( /\ items[i].type = ItemTypeEpic
            /\ \E c \in Rows : items[c].parent_id = i
            /\ ~\E c \in Rows : items[c].parent_id = i
                               /\ items[c].status \notin {StatusDone, StatusCanceled} ) )

\* depUnresolvedExpr with done as the only status that resolves a child
depUnresolvedExpr_childDoneOnly(i) ==
    ~( items[i].status \in {StatusDone, StatusCanceled}
       \/ ( /\ items[i].type = ItemTypeEpic
            /\ \E c \in Rows : items[c].parent_id = i
            /\ ~\E c \in Rows : items[c].parent_id = i
                               /\ items[c].status \notin {StatusDone} ) )

\* depUnresolvedExpr with alias i bound to row i
depUnresolvedExpr(i) ==
    ~( items[i].status \in {StatusDone, StatusCanceled}
       \/ ( /\ items[i].type = ItemTypeEpic
            /\ \E c \in Rows : items[c].parent_id = i
            /\ ~\E c \in Rows : items[c].parent_id = i
                               /\ items[c].status \notin {StatusDone, StatusCanceled} ) )

\* SELECT d.item_id FROM deps d JOIN items i ON d.depends_on = i.id WHERE depUnresolvedExpr
UnresolvedDepRows == {d \in deps : d[2] \in Rows /\ depUnresolvedExpr(d[2])}

\* HasUnmetDeps without the d.item_id = ? condition
HasUnmetDeps_anyItem(itemID) == Cardinality(UnresolvedDepRows) > 0

\* HasUnmetDeps(itemID): COUNT(*) > 0 of the unresolved edges of itemID
HasUnmetDeps(itemID) == Cardinality({d \in UnresolvedDepRows : d[1] = itemID}) > 0

\* ReadyItemsFiltered without the type = 'task' condition
ReadyItems_noTypeFilter(project) ==
    {id \in Rows :
        /\ items[id].status = StatusOpen
        /\ id \notin {d[1] : d \in UnresolvedDepRows}
        /\ (project # "" => items[id].project = project)}

\* ReadyItemsFiltered(project, nil): the ids of the rows returned
ReadyItems(project) ==
    {id \in Rows :
        /\ items[id].status = StatusOpen
        /\ items[id].type = ItemTypeTask
        /\ id \notin {d[1] : d \in UnresolvedDepRows}
        /\ (project # "" => items[id].project = project)}

\* ListItems(project, status): <<id, effective status>> of the rows returned;
\* noStatus stands for a nil status filter
NoStatus == "nil"
ListItems(project, status) ==
    LET sqlRows == {id \in Rows :
                      /\ (project # "" => items[id].project = project)
                      /\ (status # NoStatus =>
                            (items[id].status = status \/ items[id].type = ItemTypeEpic))}
        derivedRows == {<<id, applyDerivedEpicStatus(id)>> : id \in sqlRows}
    IN IF status # NoStatus /\ ~StatusIsValid(status) THEN {}
       ELSE IF status # NoStatus THEN {r \in derivedRows : r[2] = status}
       ELSE derivedRows

\* ListFilter: the zero filter; "" and NoStatus stand for an unset field
ListFilter ==
    [Project |-> "", Status |-> NoStatus, Parent |-> "", Type |-> "",
     Blocking |-> "", BlockedBy |-> "", HasBlockers |-> FALSE, NoBlockers |-> FALSE]

\* the WHERE clause ListItemsFiltered builds, with HasBlockers / NoBlockers
\* testing for any dependency edge instead of an unresolved one
ListWhere_anyDep(filter, id) ==
    /\ (filter.Project # "" => items[id].project = filter.Project)
    /\ (filter.Status # NoStatus =>
          (items[id].status = filter.Status \/ items[id].type = ItemTypeEpic))
    /\ (filter.Parent # "" => items[id].parent_id = filter.Parent)
    /\ (filter.Type # "" => items[id].type = filter.Type)
    /\ (filter.Blocking # "" => id \in {d[2] : d \in {x \in deps : x[1] = filter.Blocking}})
    /\ (filter.BlockedBy # "" => id \in {d[1] : d \in {x \in deps : x[2] = filter.BlockedBy}})
    /\ (filter.HasBlockers => id \in {d[1] : d \in deps})
    /\ (filter.NoBlockers => id \notin {d[1] : d \in deps})

\* the WHERE clause ListItemsFiltered builds, evaluated on the row id
ListWhere(filter, id) ==
    /\ (filter.Project # "" => items[id].project = filter.Project)
    /\ (filter.Status # NoStatus =>
          (items[id].status = filter.Status \/ items[id].type = ItemTypeEpic))
    /\ (filter.Parent # "" => items[id].parent_id = filter.Parent)
    /\ (filter.Type # "" => items[id].type = filter.Type)
    /\ (filter.Blocking # "" => id \in {d[2] : d \in {x \in deps : x[1] = filter.Blocking}})
    /\ (filter.BlockedBy # "" => id \in {d[1] : d \in {x \in deps : x[2] = filter.BlockedBy}})
    /\ (filter.HasBlockers => id \in {d[1] : d \in UnresolvedDepRows})
    /\ (filter.NoBlockers => id \notin {d[1] : d \in UnresolvedDepRows})

\* ListItemsFiltered without the loop that drops the epics whose derived
\* status is not the one asked for
ListItemsFiltered_noPostFilter(filter) ==
    LET derivedRows == {<<id, applyDerivedEpicStatus(id)>> :
                            id \in {r \in Rows : ListWhere(filter, r)}}
    IN IF filter.Status # NoStatus /\ ~StatusIsValid(filter.Status) THEN {}
       ELSE IF filter.Type # "" /\ ~TypeIsValid(filter.Type) THEN {}
       ELSE derivedRows

\* ListItemsFiltered(filter): <<id, effective status>> of the rows returned,
\* {} when the call fails on an invalid status or type
ListItemsFiltered(filter) ==
    LET derivedRows == {<<id, applyDerivedEpicStatus(id)>> :
                            id \in {r \in Rows : ListWhere(filter, r)}}
    IN IF filter.Status # NoStatus /\ ~StatusIsValid(filter.Status) THEN {}
       ELSE IF filter.Type # "" /\ ~TypeIsValid(filter.Type) THEN {}
       ELSE IF filter.Status # NoStatus THEN {r \in derivedRows : r[2] = filter.Status}
       ELSE derivedRows

\* ProjectStatus counting the rows by their stored status
ProjectStatus_storedStatus(project) ==
    LET scope == {id \in Rows : project # "" => items[id].project = project}
        count(s) == Cardinality({id \in scope : items[id].status = s})
    IN [Open |-> count(StatusOpen), InProgress |-> count(StatusInProgress),
        Blocked |-> count(StatusBlocked), Reviewing |-> count(StatusReviewing),
        Done |-> count(StatusDone), Canceled |-> count(StatusCanceled),
        Ready |-> Cardinality(ReadyItems(project))]

\* ProjectStatus(project): the counters of the StatusReport, each counting the
\* rows of ListItemsFiltered{Project: project} that carry the status
ProjectStatus(project) ==
    LET allItems == ListItemsFiltered([ListFilter EXCEPT !.Project = project])
        count(s) == Cardinality({r \in allItems : r[2] = s})
    IN [Open |-> count(StatusOpen), InProgress |-> count(StatusInProgress),
        Blocked |-> count(StatusBlocked), Reviewing |-> count(StatusReviewing),
        Done |-> count(StatusDone), Canceled |-> count(StatusCanceled),
        Ready |-> Cardinality(ReadyItems(project))]

\* GetAllDeps reporting the stored status of both ends of an edge
GetAllDeps_storedStatus(project) ==
    {[ItemID |-> d[1], ItemStatus |-> items[d[1]].status,
      DependsOnID |-> d[2], DependsOnStatus |-> items[d[2]].status] :
        d \in {e \in deps : /\ e[1] \in Rows /\ e[2] \in Rows
                            /\ (project = "" \/ items[e[1]].project = project)}}

\* GetAllDeps(project): the edges of deps joined to both items, the status of
\* an epic on either side replaced by deriveFromChildren
GetAllDeps(project) ==
    LET shown(id) == IF items[id].type = ItemTypeEpic
                     THEN deriveFromChildren(id, items[id].status)
                     ELSE items[id].status
    IN {[ItemID |-> d[1], ItemStatus |-> shown(d[1]),
         DependsOnID |-> d[2], DependsOnStatus |-> shown(d[2])] :
           d \in {e \in deps : /\ e[1] \in Rows /\ e[2] \in Rows
                               /\ (project = "" \/ items[e[1]].project = project)}}

\* ---- store writes ----

\* The functions of DB run their statements one by one through the connection
\* pool of database/sql, without a transaction: the statements of a call made
\* meanwhile by another goroutine or process run between them. Each action of
\* this section is one statement of a function, together with the checks the
\* function makes on its arguments and on the result of the statement. Open
\* runs PRAGMA foreign_keys = ON once, on the connection it is handed; a
\* statement that finds this connection busy runs on a new connection of the
\* pool, on which SQLite does not enforce the REFERENCES clauses of the schema.

\* foreign_keys of the connection a statement runs on
ForeignKeys == BOOLEAN

\* a call that has run a statement: the function, the statement it runs next
\* and its arguments
Call(op, pc, args) == [op |-> op, pc |-> pc, args |-> args]

\* the call goes on to its next statement
Goes(c, pc) == calls' = (calls (-) SetToBag({c})) (+) SetToBag({Call(c.op, pc, c.args)})

\* the call returns
Returns(c) == calls' = calls (-) SetToBag({c})

\* CreateItem's error without the item.Status.IsValid() check
CreateItemErr_noStatusCheck(fk, id, type, project, status, parent) ==
    IF ~TypeIsValid(type) THEN "invalid item type"
    ELSE IF id \in Rows \/ (fk /\ parent # NoParent /\ parent # id /\ parent \notin Rows)
        THEN "failed to create item"
    ELSE Nil

\* CreateItem(item): the error returned
CreateItemErr(fk, id, type, project, status, parent) ==
    IF ~TypeIsValid(type) THEN "invalid item type"
    ELSE IF ~StatusIsValid(status) THEN "invalid status"
    \* PRIMARY KEY failure of the INSERT, or FOREIGN KEY failure where enforced
    \* (a row may name itself as parent)
    ELSE IF id \in Rows \/ (fk /\ parent # NoParent /\ parent # id /\ parent \notin Rows)
        THEN "failed to create item"
    ELSE Nil

\* CreateItem(item): the checks of the argument and the INSERT. EnsureProject,
\* which runs before the INSERT, writes the projects table, which no query of
\* the model reads
CreateItem(fk, id, type, project, status, parent) ==
    IF CreateItemErr(fk, id, type, project, status, parent) # Nil THEN UNCHANGED vars
    ELSE
        /\ items' = [r \in Rows \cup {id} |->
                        IF r = id
                        THEN [type |-> type, status |-> status,
                              parent_id |-> parent, project |-> project]
                        ELSE items[r]]
        /\ UNCHANGED <<deps, logs, learnVars, derived, tui, calls>>

\* UpdateStatus's error without the check that refuses a derived status on an epic
UpdateStatusErr_noEpicCheck(id, status) ==
    IF ~StatusIsValid(status) THEN "invalid status"
    ELSE IF id \notin Rows THEN "item not found"
    ELSE Nil

\* UpdateStatus's error with the check made for the items that are not epics
UpdateStatusErr_typeInverted(id, status) ==
    IF ~StatusIsValid(status) THEN "invalid status"
    ELSE IF id \notin Rows THEN "item not found"
    ELSE IF items[id].type # ItemTypeEpic /\ status # StatusDone /\ status # StatusCanceled
        THEN "epic status is derived from children"
    ELSE Nil

\* UpdateStatus(id, status), up to its UPDATE: the error returned by the
\* status check, by SELECT type FROM items WHERE id = ? and by the epic check
UpdateStatusErr(id, status) ==
    IF ~StatusIsValid(status) THEN "invalid status"
    ELSE IF id \notin Rows THEN "item not found"
    ELSE IF items[id].type = ItemTypeEpic /\ status # StatusDone /\ status # StatusCanceled
        THEN "epic status is derived from children"
    ELSE Nil

\* UpdateStatus with its UPDATE run before the epic check instead of after it
UpdateStatusSelect_writeFirst(id, status) ==
    IF ~StatusIsValid(status) \/ id \notin Rows THEN UNCHANGED vars
    ELSE
        /\ items' = [items EXCEPT ![id].status = status]
        /\ UNCHANGED <<deps, logs, learnVars, derived, tui, calls>>

\* UpdateStatus, first statement: the status check, the SELECT and the epic
\* check; the call returns the error or goes on to the UPDATE
UpdateStatusSelect(id, status) ==
    IF UpdateStatusErr(id, status) # Nil THEN UNCHANGED vars
    ELSE
        /\ BagCardinality(calls) < MaxCalls
        /\ calls' = calls (+) SetToBag({Call("UpdateStatus", "UPDATE", <<id, status>>)})
        /\ UNCHANGED <<items, deps, logs, learnVars, derived, tui>>

\* UpdateStatus, second statement: the error returned
UpdateStatusUpdateErr(id) ==
    \* RowsAffected() = 0
    IF id \notin Rows THEN "item not found" ELSE Nil

\* UpdateStatus, second statement: UPDATE items SET status = ? WHERE id = ?
UpdateStatusUpdate(c) ==
    /\ BagIn(c, calls)
    /\ c.op = "UpdateStatus"
    /\ items' = IF UpdateStatusUpdateErr(c.args[1]) # Nil THEN items
                ELSE [items EXCEPT ![c.args[1]].status = c.args[2]]
    /\ Returns(c)
    /\ UNCHANGED <<deps, logs, learnVars, derived, tui>>

\* SetParent, first statement: the error returned
SetParentSelectErr(parentID) ==
    IF parentID \notin Rows THEN "parent not found"
    ELSE IF items[parentID].type # ItemTypeEpic THEN "parent must be an epic"
    ELSE Nil

\* SetParent, first statement: SELECT type FROM items WHERE id = ? of the
\* parent; the call returns the error or goes on to the UPDATE
SetParentSelect(itemID, parentID) ==
    IF SetParentSelectErr(parentID) # Nil THEN UNCHANGED vars
    ELSE
        /\ BagCardinality(calls) < MaxCalls
        /\ calls' = calls (+) SetToBag({Call("SetParent", "UPDATE", <<itemID, parentID>>)})
        /\ UNCHANGED <<items, deps, logs, learnVars, derived, tui>>

\* SetParent, second statement: the error returned
SetParentUpdateErr(fk, itemID, parentID) ==
    \* no row to update: RowsAffected() = 0
    IF itemID \notin Rows THEN "item not found"
    \* FOREIGN KEY constraint failed: the parent is gone
    ELSE IF fk /\ parentID \notin Rows THEN "failed to set parent"
    ELSE Nil

\* SetParent, second statement: UPDATE items SET parent_id = ? WHERE id = ?
SetParentUpdate(c, fk) ==
    /\ BagIn(c, calls)
    /\ c.op = "SetParent"
    /\ items' = IF SetParentUpdateErr(fk, c.args[1], c.args[2]) # Nil THEN items
                ELSE [items EXCEPT ![c.args[1]].parent_id = c.args[2]]
    /\ Returns(c)
    /\ UNCHANGED <<deps, logs, learnVars, derived, tui>>

\* SetProject(id, project): the error returned: RowsAffected() = 0
SetProjectErr(id, project) ==
    IF id \notin Rows THEN "item not found" ELSE Nil

\* SetProject(id, project): UPDATE items SET project = ? WHERE id = ?.
\* EnsureProject, which runs before the UPDATE, writes the projects table
SetProject(id, project) ==
    IF SetProjectErr(id, project) # Nil THEN UNCHANGED vars
    ELSE
        /\ items' = [items EXCEPT ![id].project = project]
        /\ UNCHANGED <<deps, logs, learnVars, derived, tui, calls>>

\* AddDep's error with the endpoint check passing when one endpoint exists
AddDepErr_oneEndpoint(itemID, dependsOnID) ==
    IF Cardinality({r \in Rows : r \in {itemID, dependsOnID}}) < 1
        THEN "one or both items not found"
    ELSE Nil

\* AddDep's error with a check that refuses the edge back along a stored edge
AddDepErr_noBackEdge(itemID, dependsOnID) ==
    IF Cardinality({r \in Rows : r \in {itemID, dependsOnID}}) # 2
        THEN "one or both items not found"
    ELSE IF <<dependsOnID, itemID>> \in deps THEN "dependency cycle"
    ELSE Nil

\* AddDep's error with each endpoint looked up by itself instead of counting
\* the rows WHERE id IN (?, ?)
AddDepErr_eachEndpoint(itemID, dependsOnID) ==
    IF itemID \notin Rows \/ dependsOnID \notin Rows
        THEN "one or both items not found"
    ELSE Nil

\* AddDep(itemID, dependsOnID), up to its INSERT: the error returned by the
\* check of SELECT COUNT(*) FROM items WHERE id IN (?, ?)
AddDepErr(itemID, dependsOnID) ==
    IF Cardinality({r \in Rows : r \in {itemID, dependsOnID}}) # 2
        THEN "one or both items not found"
    ELSE Nil

\* AddDep, first statement: the SELECT COUNT(*); the call returns the error
\* or goes on to the INSERT
AddDepCount(itemID, dependsOnID) ==
    IF AddDepErr(itemID, dependsOnID) # Nil THEN UNCHANGED vars
    ELSE
        /\ BagCardinality(calls) < MaxCalls
        /\ calls' = calls (+) SetToBag({Call("AddDep", "INSERT", <<itemID, dependsOnID>>)})
        /\ UNCHANGED <<items, deps, logs, learnVars, derived, tui>>

\* AddDep's second statement as a plain INSERT: the PRIMARY KEY
\* (item_id, depends_on) refuses a row that is stored already
AddDepInsertErr_noIgnore(fk, itemID, dependsOnID) ==
    IF <<itemID, dependsOnID>> \in deps THEN "failed to add dependency"
    ELSE IF fk /\ (itemID \notin Rows \/ dependsOnID \notin Rows)
        THEN "failed to add dependency"
    ELSE Nil

\* AddDep, second statement: the error returned. OR IGNORE skips a row that
\* is stored already; a new row fails the FOREIGN KEY constraints, where
\* enforced, when an endpoint is gone
AddDepInsertErr(fk, itemID, dependsOnID) ==
    IF /\ fk
       /\ <<itemID, dependsOnID>> \notin deps
       /\ (itemID \notin Rows \/ dependsOnID \notin Rows)
        THEN "failed to add dependency"
    ELSE Nil

\* AddDep, second statement: INSERT OR IGNORE INTO deps
AddDepInsert(c, fk) ==
    /\ BagIn(c, calls)
    /\ c.op = "AddDep"
    /\ deps' = IF AddDepInsertErr(fk, c.args[1], c.args[2]) # Nil THEN deps
               ELSE deps \cup {<<c.args[1], c.args[2]>>}
    /\ Returns(c)
    /\ UNCHANGED <<items, logs, learnVars, derived, tui>>

\* the depends_on column of a set of deps rows, one entry per row: the
\* SELECT has no ORDER BY, so the rows may come in any order, and each order
\* gives one of the slices
DependsOnColumn(rows) ==
    {seq \in [1..Cardinality(rows) -> {d[2] : d \in rows}] :
        \A i, j \in 1..Cardinality(rows) : i # j => seq[i] # seq[j]}

\* GetDeps(itemID): SELECT depends_on FROM deps WHERE item_id = ?; the slices
\* the call may return
GetDeps(itemID) == DependsOnColumn({d \in deps : d[1] = itemID})

\* AddLog(itemID, message): the error returned; logs.item_id REFERENCES
\* items(id), where enforced
AddLogErr(fk, itemID) ==
    IF fk /\ itemID \notin Rows THEN "failed to add log" ELSE Nil

\* AddLog(itemID, message): INSERT INTO logs; the first conjunct is the bound
\* MaxLogs of the model, not a condition of the code
AddLog(fk, itemID) ==
    IF AddLogErr(fk, itemID) # Nil THEN UNCHANGED vars
    ELSE
        /\ Len(logs) < MaxLogs
        /\ logs' = Append(logs, itemID)
        /\ UNCHANGED <<items, deps, learnVars, derived, tui, calls>>

\* GetLogs(itemID): the number of log rows of the item
GetLogs(itemID) == Len(SelectSeq(logs, LAMBDA l : l = itemID))

\* DELETE FROM logs WHERE item_id = ?
LogsWithout(id) == SelectSeq(logs, LAMBDA l : l # id)

\* DELETE FROM deps WHERE item_id = ? OR depends_on = ?
DepsWithout(id) == {d \in deps : d[1] # id /\ d[2] # id}

\* what the DELETE statements a DeleteItem call has run have done so far
\* (Result.RowsAffected, which the function does not read): no row deleted,
\* or some
NoRows == "no rows"
SomeRows == "rows"

\* DeleteItem, first statement: SELECT COUNT(*) FROM items WHERE id = ?; the
\* call returns "item not found" or goes on. The second argument of the call
\* tells whether one of its DELETE statements has deleted a row
DeleteItemCount(id) ==
    IF id \notin Rows THEN UNCHANGED vars
    ELSE
        /\ BagCardinality(calls) < MaxCalls
        /\ calls' = calls (+) SetToBag({Call("DeleteItem", "DELETE logs", <<id, NoRows>>)})
        /\ UNCHANGED <<items, deps, logs, learnVars, derived, tui>>

\* the call goes on to its next DELETE, having deleted rows or not
GoesDeleting(c, pc, deleted) ==
    calls' = (calls (-) SetToBag({c}))
                (+) SetToBag({Call(c.op, pc, <<c.args[1], IF deleted THEN SomeRows ELSE c.args[2]>>)})

\* DeleteItem, second statement: DELETE FROM logs WHERE item_id = ?
DeleteItemLogs(c) ==
    /\ BagIn(c, calls)
    /\ c.op = "DeleteItem" /\ c.pc = "DELETE logs"
    /\ logs' = LogsWithout(c.args[1])
    /\ GoesDeleting(c, "DELETE deps", LogsWithout(c.args[1]) # logs)
    /\ UNCHANGED <<items, deps, learnVars, derived, tui>>

\* DeleteItem, third statement: DELETE FROM deps WHERE item_id = ? OR depends_on = ?
DeleteItemDeps(c) ==
    /\ BagIn(c, calls)
    /\ c.op = "DeleteItem" /\ c.pc = "DELETE deps"
    /\ deps' = DepsWithout(c.args[1])
    /\ GoesDeleting(c, "DELETE items", DepsWithout(c.args[1]) # deps)
    /\ UNCHANGED <<items, logs, learnVars, derived, tui>>

\* a row of another table, or another row of items, references item id
Referenced(id) ==
    \/ \E c \in Rows : c # id /\ items[c].parent_id = id
    \/ \E d \in deps : d[1] = id \/ d[2] = id
    \/ \E i \in 1..Len(logs) : logs[i] = id
    \/ \E l \in DOMAIN learnings : learnings[l].task_id = id

\* DeleteItem, fourth statement: the error returned. No row to delete is no
\* error; a row that is referenced fails the FOREIGN KEY constraint, where
\* enforced
DeleteItemItemsErr(fk, id) ==
    IF fk /\ id \in Rows /\ Referenced(id) THEN "failed to delete item" ELSE Nil

\* DeleteItem, fourth statement: DELETE FROM items WHERE id = ?
DeleteItemItems(c, fk) ==
    /\ BagIn(c, calls)
    /\ c.op = "DeleteItem" /\ c.pc = "DELETE items"
    /\ items' = IF DeleteItemItemsErr(fk, c.args[1]) # Nil THEN items
                ELSE [r \in Rows \ {c.args[1]} |-> items[r]]
    /\ Returns(c)
    /\ UNCHANGED <<deps, logs, learnVars, derived, tui>>

\* ---- inputs ----
StatusInputs == Statuses \cup {"pending"}
\* parent of a created item: none, the epic, or a task
ParentInputs == {NoParent, "ep-1", "ts-1"}
\* the project an item is moved to
ProjectInputs == {"p2"}

\* the ids CreateItem and AddLog are called with: the epic and the first task.
\* No call creates the second task: the calls that name it find no row
CallIDs == {"ep-1", "ts-1"}

\* the items CreateItem is called with: a valid status, an invalid status or
\* an invalid type
CreateStatuses == {StatusOpen, StatusInProgress, "pending"}
CreateInputs ==
    { [id |-> t.id, type |-> t.type, project |-> t.project, status |-> s, parent |-> p] :
          t \in {x \in Templates : x.id \in CallIDs}, s \in CreateStatuses, p \in ParentInputs }
    \cup { [id |-> "ts-1", type |-> "invalid", project |-> "p1",
            status |-> StatusOpen, parent |-> NoParent] }

\* the statuses UpdateStatus is called with
UpdateStatuses == {StatusInProgress, StatusDone, StatusCanceled, "pending"}

Next ==
    \/ \E in \in CreateInputs, fk \in ForeignKeys :
          CreateItem(fk, in.id, in.type, in.project, in.status, in.parent)
    \/ \E id \in IDs, s \in UpdateStatuses : UpdateStatusSelect(id, s)
    \/ \E c \in BagToSet(calls) : UpdateStatusUpdate(c)
    \/ \E id \in IDs, p \in IDs : SetParentSelect(id, p)
    \/ \E c \in BagToSet(calls), fk \in ForeignKeys : SetParentUpdate(c, fk)
    \/ \E project \in ProjectInputs : SetProject("ts-1", project)
    \/ \E a \in IDs, b \in IDs : AddDepCount(a, b)
    \/ \E c \in BagToSet(calls), fk \in ForeignKeys : AddDepInsert(c, fk)
    \/ \E id \in IDs : DeleteItemCount(id)
    \/ \E c \in BagToSet(calls) : DeleteItemLogs(c)
    \/ \E c \in BagToSet(calls) : DeleteItemDeps(c)
    \/ \E c \in BagToSet(calls), fk \in ForeignKeys : DeleteItemItems(c, fk)

Spec == Init /\ [][Next]_vars

\* ---- the store with log entries ----

\* items created open, without a parent or under the epic
LogCreateInputs ==
    {in \in CreateInputs : in.status = StatusOpen /\ TypeIsValid(in.type)
                                                   /\ in.parent \in {NoParent, "ep-1"}}

NextLogs ==
    \/ \E in \in LogCreateInputs, fk \in ForeignKeys :
          CreateItem(fk, in.id, in.type, in.project, in.status, in.parent)
    \/ \E id \in CallIDs, fk \in ForeignKeys : AddLog(fk, id)
    \/ \E id \in IDs, p \in IDs : SetParentSelect(id, p)
    \/ \E c \in BagToSet(calls), fk \in ForeignKeys : SetParentUpdate(c, fk)
    \/ \E a \in IDs, b \in IDs : AddDepCount(a, b)
    \/ \E c \in BagToSet(calls), fk \in ForeignKeys : AddDepInsert(c, fk)
    \/ \E id \in IDs : DeleteItemCount(id)
    \/ \E c \in BagToSet(calls) : DeleteItemLogs(c)
    \/ \E c \in BagToSet(calls) : DeleteItemDeps(c)
    \/ \E c \in BagToSet(calls), fk \in ForeignKeys : DeleteItemItems(c, fk)

SpecLogs == Init /\ [][NextLogs]_vars

\* ---- learnings (learnings.go) ----

\* a nil TaskID
NoTask == "NULL"

\* the statements of the transaction, run on a copy of the three tables; err
\* is the error of the first statement that failed. fault numbers the
\* statement whose Exec returns an error of the database itself (0: none):
\* 1 the INSERT of the learning, 2i and 2i+1 the concept statement and the
\* association INSERT of the i-th concept, 2n+2 the Commit. fk is foreign_keys
\* of the connection the transaction runs on.

\* INSERT INTO learnings: id is the PRIMARY KEY, task_id REFERENCES items(id)
InsertLearning(tx, l, fault, fk) ==
    IF \/ fault = 1
       \/ l.ID \in DOMAIN tx.learnings
       \/ (fk /\ l.TaskID # NoTask /\ l.TaskID \notin Rows)
    THEN [tx EXCEPT !.err = "failed to insert learning"]
    ELSE [tx EXCEPT !.learnings =
            [k \in DOMAIN tx.learnings \cup {l.ID} |->
                IF k = l.ID THEN [project |-> l.Project, task_id |-> l.TaskID]
                ELSE tx.learnings[k]]]

\* the body of the loop over l.Concepts, from the i-th name on
RECURSIVE LinkConcepts(_, _, _, _)
LinkConcepts(tx, l, i, fault) ==
    IF tx.err # Nil \/ i > Len(l.Concepts) THEN tx
    ELSE
        LET key == <<l.Concepts[i], l.Project>>
            exists == key \in DOMAIN tx.concepts
            \* INSERT INTO concepts, or UPDATE concepts SET last_updated
            t1 == IF fault = 2 * i
                  THEN [tx EXCEPT !.err = IF exists THEN "failed to update concept"
                                          ELSE "failed to create concept"]
                  ELSE [tx EXCEPT !.concepts =
                          [k \in DOMAIN tx.concepts \cup {key} |->
                              IF k = key THEN l.UpdatedAt ELSE tx.concepts[k]]]
            \* INSERT INTO learning_concepts: PRIMARY KEY (learning_id, concept_id)
            t2 == IF t1.err # Nil THEN t1
                  ELSE IF fault = 2 * i + 1 \/ <<l.ID, key>> \in t1.learning_concepts
                  THEN [t1 EXCEPT !.err = "failed to create concept association"]
                  ELSE [t1 EXCEPT !.learning_concepts = @ \cup {<<l.ID, key>>}]
        IN LinkConcepts(t2, l, i + 1, fault)

\* the tables and the error at the end of CreateLearning's transaction
CreateLearningTx(l, fault, fk) ==
    LET t0 == [learnings |-> learnings, concepts |-> concepts,
               learning_concepts |-> learning_concepts, err |-> Nil]
        t1 == LinkConcepts(InsertLearning(t0, l, fault, fk), l, 1, fault)
    IN IF t1.err = Nil /\ fault = 2 * Len(l.Concepts) + 2
       THEN [t1 EXCEPT !.err = "failed to commit transaction"]
       ELSE t1

\* CreateLearning(l): the error returned
CreateLearningErr(l, fault, fk) == CreateLearningTx(l, fault, fk).err

\* the three tables after CreateLearning with db.Exec in place of tx.Exec:
\* each statement is kept
CreateLearningStore_noTx(l, fault, fk) ==
    LET tx == CreateLearningTx(l, fault, fk)
    IN <<tx.learnings, tx.concepts, tx.learning_concepts>>

\* the three tables after CreateLearning(l): those of the transaction after
\* Commit, those before the call after the deferred Rollback
CreateLearningStore(l, fault, fk) ==
    LET tx == CreateLearningTx(l, fault, fk)
    IN IF tx.err # Nil THEN learnVars
       ELSE <<tx.learnings, tx.concepts, tx.learning_concepts>>

\* CreateLearning(l)
CreateLearning(l, fault, fk) ==
    LET store == CreateLearningStore(l, fault, fk)
    IN /\ learnings' = store[1]
       /\ concepts' = store[2]
       /\ learning_concepts' = store[3]
       /\ UNCHANGED <<items, deps, logs, derived, tui, calls>>

\* EnsureConcept(name, project) at time now: INSERT INTO concepts ... ON
\* CONFLICT (name, project) DO NOTHING
EnsureConcept(name, project, now) ==
    /\ concepts' = IF <<name, project>> \in DOMAIN concepts THEN concepts
                   ELSE [k \in DOMAIN concepts \cup {<<name, project>>} |->
                            IF k = <<name, project>> THEN now ELSE concepts[k]]
    /\ UNCHANGED <<items, deps, logs, learnings, learning_concepts, derived, tui, calls>>

\* SetConceptSummary(name, project, summary): the error returned: RowsAffected() = 0
SetConceptSummaryErr(name, project) ==
    IF <<name, project>> \notin DOMAIN concepts THEN "concept not found" ELSE Nil

\* SetConceptSummary(name, project, summary) at time now: UPDATE concepts SET
\* summary = ?, last_updated = ? WHERE name = ? AND project = ?
SetConceptSummary(name, project, now) ==
    IF SetConceptSummaryErr(name, project) # Nil THEN UNCHANGED vars
    ELSE
        /\ concepts' = [concepts EXCEPT ![<<name, project>>] = now]
        /\ UNCHANGED <<items, deps, logs, learnings, learning_concepts, derived, tui, calls>>

\* RenameConcept(oldName, newName, project): the error returned: no row of
\* that name, or the new name is taken: UNIQUE (name, project)
RenameConceptErr(oldName, newName, project) ==
    IF <<oldName, project>> \notin DOMAIN concepts THEN "concept not found"
    ELSE IF newName # oldName /\ <<newName, project>> \in DOMAIN concepts
        THEN "failed to rename concept"
    ELSE Nil

\* RenameConcept(oldName, newName, project) at time now: UPDATE concepts SET
\* name = ?, last_updated = ? WHERE name = ? AND project = ?. The row keeps its
\* id, and with it the learnings associated with it
RenameConcept(oldName, newName, project, now) ==
    IF RenameConceptErr(oldName, newName, project) # Nil THEN UNCHANGED vars
    ELSE
        LET old == <<oldName, project>>
            new == <<newName, project>>
        IN /\ concepts' = [k \in (DOMAIN concepts \ {old}) \cup {new} |->
                              IF k = new THEN now ELSE concepts[k]]
           /\ learning_concepts' =
                 {<<lc[1], IF lc[2] = old THEN new ELSE lc[2]>> : lc \in learning_concepts}
           /\ UNCHANGED <<items, deps, logs, learnings, derived, tui, calls>>

\* most concepts of one learning
MaxConcepts == 2
\* the statements of a CreateLearning call with MaxConcepts concepts
MaxStatements == 2 * MaxConcepts + 2

LearningIDs == {"lrn-1", "lrn-2"}
ConceptNames == {"auth", "db"}
Timestamps == {1, 2}

\* Concepts of a learning: up to MaxConcepts names, a repeated name included
ConceptLists == UNION {[1..n -> ConceptNames] : n \in 0..MaxConcepts}

LearningInputs ==
    [ID : LearningIDs, Project : {"p1"}, TaskID : {NoTask, "ts-1"},
     UpdatedAt : Timestamps, Concepts : ConceptLists]

\* the task the learnings name, created open and without a parent
LearnCreateInputs == {in \in LogCreateInputs : in.id = "ts-1" /\ in.parent = NoParent}

NextLearning ==
    \/ \E in \in LearnCreateInputs, fk \in ForeignKeys :
          CreateItem(fk, in.id, in.type, in.project, in.status, in.parent)
    \/ \E in \in LearnCreateInputs : DeleteItemCount(in.id)
    \/ \E c \in BagToSet(calls) : DeleteItemLogs(c)
    \/ \E c \in BagToSet(calls) : DeleteItemDeps(c)
    \/ \E c \in BagToSet(calls), fk \in ForeignKeys : DeleteItemItems(c, fk)
    \/ \E l \in LearningInputs, fault \in 0..MaxStatements, fk \in ForeignKeys :
          CreateLearning(l, fault, fk)
    \/ \E name \in ConceptNames, now \in Timestamps : EnsureConcept(name, "p1", now)
    \/ \E name \in ConceptNames, now \in Timestamps : SetConceptSummary(name, "p1", now)
    \/ \E old \in ConceptNames, new \in ConceptNames, now \in Timestamps :
          RenameConcept(old, new, "p1", now)

SpecLearning == Init /\ [][NextLearning]_vars

\* ---- the stores the reads are made on ----

\* the dependency edges stored at once: an item does not depend on itself
EdgeSets(ids) ==
    {E \in SUBSET {d \in ids \X ids : d[1] # d[2]} : Cardinality(E) <= MaxDeps}

\* the items tables CreateItem, UpdateStatus, SetParent and DeleteItem leave of
\* the templates T: each row stored or not, with a status of ss and a parent of
\* ps[id] (a stored row, the row itself, or a row that is gone: the foreign
\* key is not enforced on every connection)
ItemTables(T, ss, ps) ==
    UNION {{[id \in {t.id : t \in S} |->
                LET t == CHOOSE x \in S : x.id = id
                IN [type |-> t.type, status |-> st[id],
                    parent_id |-> pa[id], project |-> t.project]] :
              st \in [{t.id : t \in S} -> ss],
              pa \in {f \in [{t.id : t \in S} -> UNION {ps[id] : id \in DOMAIN ps}] :
                        \A id \in DOMAIN f : f[id] \in ps[id]}} :
           S \in T}

\* a store of the three templates, as the write operations leave it
InitStores ==
    /\ items \in ItemTables(SUBSET Templates, Statuses, [id \in IDs |-> ParentInputs])
    /\ deps \in EdgeSets(IDs)
    /\ logs = <<>>
    /\ learnings = <<>>
    /\ concepts = <<>>
    /\ learning_concepts = {}
    /\ tui = New
    /\ calls = EmptyBag
    /\ derived = NoResult

\* the items table after applyDerivedEpicStatus with the derived status
\* written to the row instead of the scanned Item
StoreAfterPatch_writeBack ==
    [r \in Rows |-> [items[r] EXCEPT !.status = applyDerivedEpicStatus(r)]]

\* the items table after applyDerivedEpicStatus: item.Status = derived
\* assigns to the scanned Item, the row is not written
StoreAfterPatch == items

\* a call of GetItem, ListItemsFiltered, ReadyItems or ProjectStatus: a SELECT
\* followed by applyDerivedEpicStatus on the scanned rows
PatchedRead ==
    /\ items' = StoreAfterPatch
    /\ UNCHANGED <<deps, logs, learnVars, derived, tui, calls>>

\* GetItem(id)
GetItemCall(id) == PatchedRead

\* ListItemsFiltered(filter)
ListItemsFilteredCall(filter) == PatchedRead

\* ReadyItems(project)
ReadyItemsCall(project) == PatchedRead

\* ProjectStatus(project)
ProjectStatusCall(project) == PatchedRead

\* DeriveEpicStatus(id), HasUnmetDeps(id), GetAllDeps(project): SELECTs only,
\* the derived status goes to the returned value
SelectOnlyRead == UNCHANGED vars

DeriveEpicStatusCall(id) == SelectOnlyRead

HasUnmetDepsCall(id) == SelectOnlyRead

GetAllDepsCall(project) == SelectOnlyRead

\* the filters a list call is made with
ReadFilters ==
    {ListFilter, [ListFilter EXCEPT !.Status = StatusOpen],
     [ListFilter EXCEPT !.HasBlockers = TRUE], [ListFilter EXCEPT !.NoBlockers = TRUE]}

NextStores ==
    \/ \E id \in IDs : GetItemCall(id)
    \/ \E f \in ReadFilters : ListItemsFilteredCall(f)
    \/ \E p \in Projects : ReadyItemsCall(p)
    \/ \E p \in Projects : ProjectStatusCall(p)
    \/ \E id \in IDs : DeriveEpicStatusCall(id)
    \/ \E id \in IDs : HasUnmetDepsCall(id)
    \/ \E p \in Projects : GetAllDepsCall(p)

SpecStores == InitStores /\ [][NextStores]_vars

\* ---- reads next to writes ----

\* the statuses of the tasks and of the epic before the calls, and the
\* statuses UpdateStatus is called with
ReadTaskStatuses == {StatusOpen, StatusInProgress, StatusDone, StatusCanceled}
ReadUpdateStatuses == {StatusOpen, StatusDone, StatusCanceled}

\* a store of the three templates: the epic without a parent, the tasks
\* without one or under the epic
InitReads ==
    /\ items \in {t \in ItemTables({Templates}, ReadTaskStatuses,
                                   [id \in IDs |-> IF id = "ep-1" THEN {NoParent}
                                                   ELSE {NoParent, "ep-1"}]) :
                     t["ep-1"].status \in {StatusOpen, StatusDone}}
    /\ deps \in EdgeSets(IDs)
    /\ logs = <<>>
    /\ learnings = <<>>
    /\ concepts = <<>>
    /\ learning_concepts = {}
    /\ tui = New
    /\ calls = EmptyBag
    /\ derived = NoResult

NextReads ==
    \/ \E id \in IDs, s \in ReadUpdateStatuses : UpdateStatusSelect(id, s)
    \/ \E c \in BagToSet(calls) : UpdateStatusUpdate(c)
    \/ \E id \in IDs : GetItemCall(id)
    \/ \E f \in ReadFilters : ListItemsFilteredCall(f)
    \/ \E p \in Projects : ReadyItemsCall(p)
    \/ \E p \in Projects : ProjectStatusCall(p)
    \/ \E id \in IDs : DeriveEpicStatusCall(id)
    \/ \E id \in IDs : HasUnmetDepsCall(id)
    \/ \E p \in Projects : GetAllDepsCall(p)

SpecReads == InitReads /\ [][NextReads]_vars

\* ---- epics nested in epics ----

\* two epics and a task, so that an epic can have an epic child with a child
NestedTemplates ==
    { [id |-> "ep-1", type |-> ItemTypeEpic, project |-> "p1"],
      [id |-> "ep-2", type |-> ItemTypeEpic, project |-> "p1"],
      [id |-> "ts-1", type |-> ItemTypeTask, project |-> "p1"] }

NestedIDs == {t.id : t \in NestedTemplates}

\* the parents of the three rows: the second epic may be under the first, the
\* task under either
NestedParents ==
    [id \in NestedIDs |-> IF id = "ep-1" THEN {NoParent}
                          ELSE IF id = "ep-2" THEN {NoParent, "ep-1"}
                          ELSE {NoParent, "ep-1", "ep-2"}]

InitNested ==
    /\ items \in ItemTables({NestedTemplates}, Statuses, NestedParents)
    /\ deps = {}
    /\ logs = <<>>
    /\ learnings = <<>>
    /\ concepts = <<>>
    /\ learning_concepts = {}
    /\ tui = New
    /\ calls = EmptyBag
    /\ derived = NoResult

NextNested ==
    \/ \E id \in NestedIDs, s \in Statuses : UpdateStatusSelect(id, s)
    \/ \E c \in BagToSet(calls) : UpdateStatusUpdate(c)
    \/ \E p \in NestedIDs : SetParentSelect("ts-1", p)
    \/ \E c \in BagToSet(calls), fk \in ForeignKeys : SetParentUpdate(c, fk)

SpecNested == InitNested /\ [][NextNested]_vars

\* ---- the order of the rows returned ----

\* highest priority value and latest creation time of the rows ordered
MaxPriority == 2
MaxCreatedAt == 3

\* ORDER BY priority ASC alone: the sequences the query may return
OrderBy_priorityOnly(ids) ==
    {seq \in [1..Cardinality(ids) -> ids] :
        /\ \A i, j \in 1..Cardinality(ids) : i # j => seq[i] # seq[j]
        /\ \A i, j \in 1..Cardinality(ids) :
              i < j => items[seq[i]].priority <= items[seq[j]].priority}

\* ORDER BY priority ASC, created_at ASC: the sequences the query may return
\* (rows equal in both columns come in either order)
OrderBy(ids) ==
    {seq \in [1..Cardinality(ids) -> ids] :
        /\ \A i, j \in 1..Cardinality(ids) : i # j => seq[i] # seq[j]
        /\ \A i, j \in 1..Cardinality(ids) :
              i < j =>
                \/ items[seq[i]].priority < items[seq[j]].priority
                \/ /\ items[seq[i]].priority = items[seq[j]].priority
                   /\ items[seq[i]].created_at <= items[seq[j]].created_at}

\* ReadyItems(project): the id sequences it may return
ReadyItemsOrdered(project) == OrderBy(ReadyItems(project))

\* ListItemsFiltered(filter): the id sequences it may return; the loop over the
\* status filter keeps the order of the rows it keeps
ListItemsFilteredOrdered(filter) ==
    IF filter.Status # NoStatus /\ ~StatusIsValid(filter.Status) THEN {}
    ELSE IF filter.Type # "" /\ ~TypeIsValid(filter.Type) THEN {}
    ELSE {SelectSeq(seq, LAMBDA id :
                filter.Status # NoStatus => applyDerivedEpicStatus(id) = filter.Status) :
            seq \in OrderBy({r \in Rows : ListWhere(filter, r)})}

\* the rows ordered: an epic and two tasks
OrderTemplates ==
    { [id |-> "ep-1", type |-> ItemTypeEpic], [id |-> "ts-1", type |-> ItemTypeTask],
      [id |-> "ts-2", type |-> ItemTypeTask] }

OrderIDs == {t.id : t \in OrderTemplates}

\* a row of the items table with its priority and created_at columns
OrderRow(id, status, priority, created_at) ==
    [type |-> (CHOOSE t \in OrderTemplates : t.id = id).type, status |-> status,
     parent_id |-> NoParent, project |-> "p1", priority |-> priority, created_at |-> created_at]

\* the filters of the list calls
OrderFilters == {ListFilter, [ListFilter EXCEPT !.Status = StatusOpen]}

\* a store of open items, the second task possibly done, with priorities and
\* creation times of which some are equal
InitOrder ==
    /\ \E prio \in [OrderIDs -> 1..MaxPriority], at \in [OrderIDs -> 1..MaxCreatedAt],
          s \in {StatusOpen, StatusDone} :
          items = [id \in OrderIDs |->
                      OrderRow(id, IF id = "ts-2" THEN s ELSE StatusOpen, prio[id], at[id])]
    /\ deps = {}
    /\ logs = <<>>
    /\ learnings = <<>>
    /\ concepts = <<>>
    /\ learning_concepts = {}
    /\ tui = New
    /\ calls = EmptyBag
    /\ derived = <<>>

\* a caller receives the rows of ReadyItems(project)
ReadyItemsOrderedCall(project) ==
    /\ \E seq \in ReadyItemsOrdered(project) : derived' = seq
    /\ UNCHANGED <<items, deps, logs, learnVars, tui, calls>>

\* a caller receives the rows of ListItemsFiltered(filter)
ListItemsFilteredOrderedCall(filter) ==
    /\ \E seq \in ListItemsFilteredOrdered(filter) : derived' = seq
    /\ UNCHANGED <<items, deps, logs, learnVars, tui, calls>>

NextOrder ==
    \/ \E p \in {"", "p1"} : ReadyItemsOrderedCall(p)
    \/ \E f \in OrderFilters : ListItemsFilteredOrderedCall(f)

SpecOrder == InitOrder /\ [][NextOrder]_vars

\* ---- the recently completed items of the status report ----

\* LIMIT of the recent query and the length RecentDone is cut to
RecentLimit == 10
RecentKeep == 3

\* latest updated_at of the rows
MaxUpdatedAt == 3

\* the first n elements of seq
Take(seq, n) == SubSeq(seq, 1, IF Len(seq) < n THEN Len(seq) ELSE n)

\* ORDER BY updated_at DESC: the sequences the query may return (rows updated
\* at the same time come in either order)
OrderByUpdatedDesc(ids) ==
    {seq \in [1..Cardinality(ids) -> ids] :
        /\ \A i, j \in 1..Cardinality(ids) : i # j => seq[i] # seq[j]
        /\ \A i, j \in 1..Cardinality(ids) :
              i < j => items[seq[i]].updated_at >= items[seq[j]].updated_at}

\* the rows the recent query selects: WHERE status IN ('done', 'canceled')
\* on the stored status, AND project = ?
RecentCandidates(project) ==
    {r \in Rows : /\ items[r].status \in {StatusDone, StatusCanceled}
                  /\ (project = "" \/ items[r].project = project)}

\* ProjectStatus(project).RecentDone: the id sequences it may hold. The
\* candidates come ORDER BY updated_at DESC LIMIT 10 through queryItems, and
\* the first three whose derived status is done are kept
RecentDone(project) ==
    {Take(SelectSeq(Take(seq, RecentLimit),
                    LAMBDA id : applyDerivedEpicStatus(id) = StatusDone), RecentKeep) :
        seq \in OrderByUpdatedDesc(RecentCandidates(project))}

\* the rows of the report: an epic with a child task, and two more tasks
RecentTemplates ==
    { [id |-> "ep-1", type |-> ItemTypeEpic, parent_id |-> NoParent],
      [id |-> "ts-1", type |-> ItemTypeTask, parent_id |-> "ep-1"],
      [id |-> "ts-2", type |-> ItemTypeTask, parent_id |-> NoParent],
      [id |-> "ts-3", type |-> ItemTypeTask, parent_id |-> NoParent] }

RecentIDs == {t.id : t \in RecentTemplates}

\* the stored statuses of the rows of the report
RecentStatuses == {StatusOpen, StatusDone, StatusCanceled}

\* a store as CreateItem and UpdateStatus leave it, the rows last updated at
\* times of which some are equal
InitRecent ==
    /\ \E st \in [RecentIDs -> RecentStatuses], at \in [RecentIDs -> 1..MaxUpdatedAt] :
          items = [id \in RecentIDs |->
                      LET t == CHOOSE x \in RecentTemplates : x.id = id
                      IN [type |-> t.type, status |-> st[id], parent_id |-> t.parent_id,
                          project |-> "p1", updated_at |-> at[id]]]
    /\ deps = {}
    /\ logs = <<>>
    /\ learnings = <<>>
    /\ concepts = <<>>
    /\ learning_concepts = {}
    /\ tui = New
    /\ calls = EmptyBag
    /\ derived = NoResult

\* a caller receives the RecentDone of ProjectStatus(project)
RecentDoneCall(project) ==
    /\ \E seq \in RecentDone(project) : derived' = seq
    /\ UNCHANGED <<items, deps, logs, learnVars, tui, calls>>

NextRecent == \E p \in {"", "p1"} : RecentDoneCall(p)

SpecRecent == InitRecent /\ [][NextRecent]_vars

\* ---- derivation as a function of the child statuses ----

DeriveEpic == "ep-1"
ChildNames == <<"ts-1", "ts-2", "ts-3", "ts-4", "ts-5", "ts-6">>

\* an epic with stored status s and k task children with stored statuses f[1..k],
\* as CreateItem and SetParent leave them
EpicWithChildren(s, k, f) ==
    [r \in {DeriveEpic} \cup {ChildNames[n] : n \in 1..k} |->
        IF r = DeriveEpic
        THEN [type |-> ItemTypeEpic, status |-> s, parent_id |-> NoParent, project |-> "p1"]
        ELSE [type |-> ItemTypeTask,
              status |-> f[CHOOSE n \in 1..k : ChildNames[n] = r],
              parent_id |-> DeriveEpic, project |-> "p1"]]

InitDerive ==
    /\ \E s \in Statuses, k \in 0..MaxChildren :
          \E f \in [1..k -> Statuses] : items = EpicWithChildren(s, k, f)
    /\ deps = {}
    /\ logs = <<>>
    /\ learnings = <<>>
    /\ concepts = <<>>
    /\ learning_concepts = {}
    /\ tui = New
    /\ calls = EmptyBag
    /\ derived = NoResult

\* a caller reads the epic's effective status
DeriveCall ==
    /\ derived = NoResult
    /\ derived' = DeriveEpicStatus(DeriveEpic)
    /\ UNCHANGED <<items, deps, logs, learnVars, tui, calls>>

NextDerive == DeriveCall

SpecDerive == InitDerive /\ [][NextDerive]_vars

\* ---- the terminal UI (tui.go) ----

Max(a, b) == IF a >= b THEN a ELSE b

\* the rows in the order the list shows them
TUIIDs == <<"ts-1", "ts-2", "ts-3">>

\* the command of loadItems: a goroutine that has ListItemsFiltered and then
\* PopulateItemLabels to call; pc is the call it makes next, items what
\* ListItemsFiltered returned
loadItems == {[type |-> "loadItems", pc |-> "ListItemsFiltered", items |-> <<>>]}

\* the labels attached to the items: the rows of item_labels, which no
\* action of the UI writes
TUILabels ==
    [id \in {"ts-1", "ts-2", "ts-3"} |->
        IF id = "ts-1" THEN {<<"s", "d">>} ELSE IF id = "ts-2" THEN {<<"D">>} ELSE {}]

\* the labels PopulateItemLabels may find for item id: those attached to it;
\* of an item deleted since it was listed, the rows of item_labels are left
\* behind or gone with it
LabelsFound(id) == IF id \in Rows THEN {TUILabels[id]} ELSE {TUILabels[id], {}}

\* PopulateItemLabels(rows): the rows with their labels filled in, read from
\* the store as it is when the call is made
PopulateItemLabels(rows) ==
    {[i \in 1..Len(rows) |-> [rows[i] EXCEPT !.Labels = found[i]]] :
        found \in {f \in [1..Len(rows) -> {TUILabels[id] : id \in DOMAIN TUILabels} \cup {{}}] :
                      \A i \in 1..Len(rows) : f[i] \in LabelsFound(rows[i].ID)}}

\* the rows ListItemsFiltered returns to loadItems, in list order: the ID,
\* the effective status and the columns the filters read, no labels yet
itemsMsgItems ==
    LET listed == ListItemsFiltered(ListFilter)
        row(n) == [ID |-> TUIIDs[n],
                   Status |-> (CHOOSE r \in listed : r[1] = TUIIDs[n])[2],
                   Project |-> items[TUIIDs[n]].project,
                   Title |-> items[TUIIDs[n]].title,
                   Description |-> items[TUIIDs[n]].description,
                   Labels |-> {}]
        RECURSIVE build(_)
        build(n) == IF n = 0 THEN <<>>
                    ELSE IF \E r \in listed : r[1] = TUIIDs[n]
                         THEN Append(build(n - 1), row(n))
                         ELSE build(n - 1)
    IN build(Len(TUIIDs))

\* the ID of the item under the cursor
Selected(m) == m.filtered[m.cursor + 1].ID

\* the command of loadDetail: nil without a selected item, or a goroutine that
\* has GetLogs and then GetDeps to call for the item selected when the command
\* is made; pc is the call it makes next, logs what GetLogs returned
loadDetail(m) ==
    IF Len(m.filtered) = 0 \/ m.cursor >= Len(m.filtered) THEN {}
    ELSE {[type |-> "loadDetail", id |-> Selected(m), pc |-> "GetLogs", logs |-> 0]}

\* tea.Quit: the command whose message ends the program
Quit == {[type |-> "QuitMsg"]}

\* the characters of the IDs the list shows
IDText ==
    [id \in {"ts-1", "ts-2", "ts-3"} |->
        <<"t", "s", "-", IF id = "ts-1" THEN "1" ELSE IF id = "ts-2" THEN "2" ELSE "3">>]

\* the ID a typed text spells; a text that spells no ID is an ID no row has
TextID(text) ==
    IF \E id \in DOMAIN IDText : IDText[id] = text
    THEN CHOOSE id \in DOMAIN IDText : IDText[id] = text
    ELSE "none"

\* the characters of a project name
ProjectText(project) ==
    IF project = "p1" THEN <<"p", "1">>
    ELSE IF project = "p2" THEN <<"p", "2">>
    ELSE <<>>

\* strings.ToLower on a text of the keys typed
ToLower(text) ==
    [i \in 1..Len(text) |->
        IF text[i] = "D" THEN "d"
        ELSE IF text[i] = "G" THEN "g"
        ELSE IF text[i] = "L" THEN "l"
        ELSE text[i]]

\* strings.Contains(text, sub)
Contains(text, sub) ==
    \E i \in 1..(Len(text) + 1) :
        i + Len(sub) - 1 <= Len(text) /\ SubSeq(text, i, i + Len(sub) - 1) = sub

\* the test of applyFilters on one item: the status filter, the project
\* filter, the search in title, ID and description, and the label filter
Shown(m, it) ==
    /\ it.Status \in m.filterStatuses
    /\ (m.filterProject # <<>> =>
            Contains(ToLower(ProjectText(it.Project)), ToLower(m.filterProject)))
    /\ (m.filterSearch # <<>> =>
            \/ Contains(ToLower(it.Title), ToLower(m.filterSearch))
            \/ Contains(ToLower(IDText[it.ID]), ToLower(m.filterSearch))
            \/ Contains(ToLower(it.Description), ToLower(m.filterSearch)))
    /\ (m.filterLabel # <<>> =>
            \E itemLabel \in it.Labels :
                Contains(ToLower(itemLabel), ToLower(m.filterLabel)))

\* applyFilters() without the adjustment of the cursor
applyFilters_noClamp(m) ==
    [m EXCEPT !.filtered = SelectSeq(m.items, LAMBDA it : Shown(m, it))]

\* applyFilters(): filtered is rebuilt from items, and the cursor is clamped
\* to it
applyFilters(m) ==
    LET f == SelectSeq(m.items, LAMBDA it : Shown(m, it))
    IN [m EXCEPT !.filtered = f,
                 !.cursor = IF m.cursor >= Len(f) THEN Max(0, Len(f) - 1) ELSE m.cursor]

\* a handler's result: the new Model and the command it returns
Result(m, cmd) == [m |-> m, cmd |-> cmd]

\* a cursor key: the cursor is set only when it changes, the scroll of the
\* detail is reset with it, and in split view the detail of the new selection
\* is loaded
moveCursor(m, c) ==
    IF c = m.cursor THEN Result(m, {})
    ELSE LET n == [m EXCEPT !.cursor = c, !.detailScroll = 0]
         IN Result(n, IF n.width >= minSplitWidth THEN loadDetail(n) ELSE {})

\* the command of an action: a goroutine that calls UpdateStatus, and AddLog
\* after it when log is set, or AddLog alone, or DeleteItem, and returns an
\* actionMsg; pc is the statement it runs next
StoreCmd(op, id, status, log) ==
    {[type |-> "cmd", op |-> op, id |-> id, status |-> status, log |-> log,
      pc |-> IF op = "UpdateStatus" THEN "SELECT"
             ELSE IF op = "AddLog" THEN "INSERT"
             ELSE "COUNT"]}

\* the command of the add-dependency input: a goroutine that calls
\* AddDep(id, text)
AddDepCmd(id, text) ==
    {[type |-> "cmd", op |-> "AddDep", id |-> id, dependsOn |-> text, pc |-> "COUNT"]}

\* the command of the create input: a goroutine that calls CreateItem with a
\* new open task of the project and the title given
CreateItemCmd(project, text) ==
    {[type |-> "cmd", op |-> "CreateItem", project |-> project, title |-> text,
      pc |-> "INSERT"]}

\* startInput(mode, label)
startInput(m, mode) == Result([m EXCEPT !.inputMode = mode, !.inputText = <<>>], {})

\* doStart(): the listed status of the selected item is open or blocked
doStart(m) ==
    IF Len(m.filtered) = 0 THEN Result(m, {})
    ELSE LET item == m.filtered[m.cursor + 1]
         IN IF item.Status # StatusOpen /\ item.Status # StatusBlocked THEN Result(m, {})
            ELSE Result(m, StoreCmd("UpdateStatus", item.ID, StatusInProgress, FALSE))

\* doDone(): the listed status of the selected item is in_progress
doDone(m) ==
    IF Len(m.filtered) = 0 THEN Result(m, {})
    ELSE LET item == m.filtered[m.cursor + 1]
         IN IF item.Status # StatusInProgress THEN Result(m, {})
            ELSE Result(m, StoreCmd("UpdateStatus", item.ID, StatusDone, FALSE))

\* doDelete()
doDelete(m) ==
    IF Len(m.filtered) = 0 THEN Result(m, {})
    ELSE Result(m, StoreCmd("DeleteItem", m.filtered[m.cursor + 1].ID, NoStatus, FALSE))

\* the keys whose String() is one character, which a text input takes as text
TextKeys ==
    {"q", "k", "j", "g", "G", "l", "h", "s", "d", "b", "L", "c", "D", "/", "p", "t",
     "0", "1", "2", "3", "4", "5", "6", "r", "a", "n", "-"}

\* the keys with a longer name
NamedKeys == {"ctrl+c", "tab", "up", "down", "home", "end", "enter", "esc", "backspace"}

\* submitInput(): the input is closed; a filter text becomes the filter, a
\* title creates a task in the project of the selected item, and the other
\* inputs are commands on the selected item
submitInput(m) ==
    LET text == m.inputText
        mode == m.inputMode
        n == [m EXCEPT !.inputMode = InputNone, !.inputText = <<>>]
    IN IF mode = InputSearch THEN Result(applyFilters([n EXCEPT !.filterSearch = text]), {})
       ELSE IF mode = InputProject
       THEN Result(applyFilters([n EXCEPT !.filterProject = text]), {})
       ELSE IF mode = InputLabel
       THEN Result(applyFilters([n EXCEPT !.filterLabel = text]), {})
       ELSE IF mode = InputCreate THEN
           IF text = <<>> THEN Result(n, {})
           ELSE Result(n, CreateItemCmd(
                    IF Len(n.filtered) > 0 /\ n.cursor < Len(n.filtered)
                    THEN n.filtered[n.cursor + 1].Project ELSE "", text))
       ELSE IF Len(n.filtered) = 0 THEN Result(n, {})
       ELSE LET item == n.filtered[n.cursor + 1]
            IN IF mode = InputBlock THEN
                   IF text = <<>> THEN Result(n, {})
                   ELSE Result(n, StoreCmd("UpdateStatus", item.ID, StatusBlocked, TRUE))
               ELSE IF mode = InputLog THEN
                   IF text = <<>> THEN Result(n, {})
                   ELSE Result(n, StoreCmd("AddLog", item.ID, NoStatus, TRUE))
               ELSE IF mode = InputCancel
               THEN Result(n, StoreCmd("UpdateStatus", item.ID, StatusCanceled, text # <<>>))
               ELSE IF mode = InputAddDep THEN
                   IF text = <<>> THEN Result(n, {})
                   ELSE Result(n, AddDepCmd(item.ID, text))
               ELSE Result(n, {})

\* the live filter of handleInputKey: the text of a search, project or label
\* input is applied as typed
liveFilter(m) ==
    IF m.inputMode = InputSearch
    THEN applyFilters([m EXCEPT !.filterSearch = m.inputText])
    ELSE IF m.inputMode = InputProject
    THEN applyFilters([m EXCEPT !.filterProject = m.inputText])
    ELSE IF m.inputMode = InputLabel
    THEN applyFilters([m EXCEPT !.filterLabel = m.inputText])
    ELSE m

\* handleInputKey: esc leaves the input, enter submits it, backspace and the
\* keys of one character edit the text
handleInputKey(m, key) ==
    IF key = "esc" THEN Result([m EXCEPT !.inputMode = InputNone, !.inputText = <<>>], {})
    ELSE IF key = "enter" THEN submitInput(m)
    ELSE IF key = "backspace" THEN
        IF Len(m.inputText) > 0
        THEN Result(liveFilter([m EXCEPT !.inputText = SubSeq(@, 1, Len(@) - 1)]), {})
        ELSE Result(m, {})
    ELSE IF key \in TextKeys
    THEN Result(liveFilter([m EXCEPT !.inputText = Append(@, key)]), {})
    ELSE Result(m, {})

\* handleDetailPaneKey: q and ctrl+c quit, tab, esc and h return the focus to
\* the list, the cursor keys scroll the pane, the action keys act on the
\* selected item
handleDetailPaneKey(m, key) ==
    IF key \in {"q", "ctrl+c"} THEN Result(m, Quit)
    ELSE IF key \in {"tab", "esc", "h"} THEN Result([m EXCEPT !.focusPane = FocusList], {})
    ELSE IF key \in {"up", "k"} THEN
        Result([m EXCEPT !.detailScroll = IF @ > 0 THEN @ - 1 ELSE @], {})
    ELSE IF key \in {"down", "j"} THEN Result([m EXCEPT !.detailScroll = @ + 1], {})
    ELSE IF key \in {"g", "home"} THEN Result([m EXCEPT !.detailScroll = 0], {})
    ELSE IF key \in {"G", "end"} THEN Result([m EXCEPT !.detailScroll = 9999], {})
    ELSE IF key = "s" THEN doStart(m)
    ELSE IF key = "d" THEN doDone(m)
    ELSE IF key = "b" THEN startInput(m, InputBlock)
    ELSE IF key = "L" THEN startInput(m, InputLog)
    ELSE IF key = "c" THEN startInput(m, InputCancel)
    ELSE IF key = "a" THEN startInput(m, InputAddDep)
    ELSE Result(m, {})

\* the status a filter key toggles
FilterKeyStatus(key) ==
    IF key = "1" THEN StatusOpen
    ELSE IF key = "2" THEN StatusInProgress
    ELSE IF key = "3" THEN StatusBlocked
    ELSE IF key = "4" THEN StatusReviewing
    ELSE IF key = "5" THEN StatusDone
    ELSE StatusCanceled

\* handleListKey
handleListKey(m, key) ==
    IF m.width >= minSplitWidth /\ m.focusPane = FocusDetail THEN handleDetailPaneKey(m, key)
    ELSE IF key \in {"q", "ctrl+c"} THEN Result(m, Quit)
    ELSE IF key = "tab" THEN
        IF m.width >= minSplitWidth
        THEN Result([m EXCEPT !.focusPane =
                        IF m.focusPane = FocusList THEN FocusDetail ELSE FocusList], {})
        ELSE Result(m, {})
    ELSE IF key \in {"up", "k"} THEN
        IF m.cursor > 0 THEN moveCursor(m, m.cursor - 1) ELSE Result(m, {})
    ELSE IF key \in {"down", "j"} THEN
        IF m.cursor < Len(m.filtered) - 1 THEN moveCursor(m, m.cursor + 1) ELSE Result(m, {})
    ELSE IF key \in {"g", "home"} THEN moveCursor(m, 0)
    ELSE IF key \in {"G", "end"} THEN moveCursor(m, Max(0, Len(m.filtered) - 1))
    ELSE IF key \in {"enter", "l"} THEN
        IF m.width < minSplitWidth /\ Len(m.filtered) > 0
        THEN LET n == [m EXCEPT !.viewMode = ViewDetail] IN Result(n, loadDetail(n))
        ELSE IF m.width >= minSplitWidth
        THEN Result([m EXCEPT !.focusPane = FocusDetail], {})
        ELSE Result(m, {})
    ELSE IF key = "s" THEN doStart(m)
    ELSE IF key = "d" THEN doDone(m)
    ELSE IF key = "b" THEN startInput(m, InputBlock)
    ELSE IF key = "L" THEN startInput(m, InputLog)
    ELSE IF key = "c" THEN startInput(m, InputCancel)
    ELSE IF key = "D" THEN doDelete(m)
    ELSE IF key = "/" THEN startInput(m, InputSearch)
    ELSE IF key = "p" THEN startInput(m, InputProject)
    ELSE IF key = "t" THEN startInput(m, InputLabel)
    ELSE IF key \in {"1", "2", "3", "4", "5", "6"} THEN
        LET s == FilterKeyStatus(key)
        IN Result(applyFilters([m EXCEPT !.filterStatuses =
                      IF s \in @ THEN @ \ {s} ELSE @ \cup {s}]), {})
    ELSE IF key = "0" THEN
        Result(applyFilters([m EXCEPT !.filterStatuses = Statuses]), {})
    ELSE IF key = "esc" THEN
        \* the filters that are set are cleared; without one the key quits
        IF m.filterSearch # <<>> \/ m.filterProject # <<>> \/ m.filterLabel # <<>>
        THEN Result(applyFilters([m EXCEPT !.filterSearch = <<>>, !.filterProject = <<>>,
                                           !.filterLabel = <<>>]), {})
        ELSE Result(m, Quit)
    ELSE IF key = "r" THEN Result(m, loadItems)
    ELSE IF key = "a" THEN startInput(m, InputAddDep)
    ELSE IF key = "n" THEN startInput(m, InputCreate)
    ELSE Result(m, {})

\* handleDetailKey: the keys of the full-screen detail of a narrow terminal
handleDetailKey(m, key) ==
    IF key \in {"q", "ctrl+c"} THEN Result(m, Quit)
    ELSE IF key \in {"esc", "h", "backspace"} THEN Result([m EXCEPT !.viewMode = ViewList], {})
    ELSE IF key = "s" THEN doStart(m)
    ELSE IF key = "d" THEN doDone(m)
    ELSE IF key = "b" THEN startInput(m, InputBlock)
    ELSE IF key = "L" THEN startInput(m, InputLog)
    ELSE IF key = "c" THEN startInput(m, InputCancel)
    ELSE IF key = "a" THEN startInput(m, InputAddDep)
    ELSE IF key = "r" THEN Result(m, loadDetail(m))
    ELSE Result(m, {})

\* handleKey sending the keys to the views while a text input is active
handleKey_noInputMode(m, key) ==
    IF m.viewMode = ViewList THEN handleListKey(m, key) ELSE handleDetailKey(m, key)

\* handleKey: a text input takes every key while it is active
handleKey(m, key) ==
    IF m.inputMode # InputNone THEN handleInputKey(m, key)
    ELSE IF m.viewMode = ViewList THEN handleListKey(m, key)
    ELSE handleDetailKey(m, key)

\* Update on a tea.WindowSizeMsg
updateWindowSize(m, width) ==
    LET n == [m EXCEPT !.width = width]
    IN IF m.width < minSplitWidth /\ n.width >= minSplitWidth /\ Len(n.filtered) > 0
       THEN Result(n, loadDetail(n))
       ELSE IF n.viewMode = ViewDetail /\ n.width >= minSplitWidth
       THEN Result([n EXCEPT !.viewMode = ViewList], {})
       ELSE Result(n, {})

\* Update on an itemsMsg
updateItems(m, rows) ==
    LET n == applyFilters([m EXCEPT !.items = rows])
    IN Result(n, IF n.width >= minSplitWidth /\ Len(n.filtered) > 0
                 THEN loadDetail(n) ELSE {})

\* Update on a detailMsg that ignores for which item the load was made
updateDetail_noStaleCheck(m, msg) ==
    Result([m EXCEPT !.detailLogs = msg.logs, !.detailDeps = msg.deps], {})

\* Update on a detailMsg: a result for an item that is no longer selected is ignored
updateDetail(m, msg) ==
    IF Len(m.filtered) > 0 /\ m.cursor < Len(m.filtered) /\ Selected(m) = msg.id
    THEN Result([m EXCEPT !.detailLogs = msg.logs, !.detailDeps = msg.deps], {})
    ELSE Result(m, {})

\* Update on an actionMsg: the list is reloaded
updateAction(m) == Result(m, loadItems)

\* the message a store command returns
actionMsg == {[type |-> "actionMsg"]}

\* a message or a command in flight
InFlight(c) == BagIn(c, tui.pending)

\* the program takes a handler's Model and starts the goroutine of its
\* command; delivered is the message the handler consumed. Every command
\* runs in a goroutine of its own and every message is delivered, equal ones
\* too
Handled(r, delivered) ==
    /\ ~tui.quit
    /\ tui' = [r.m EXCEPT !.pending = (@ (-) SetToBag(delivered)) (+) SetToBag(r.cmd)]
    /\ UNCHANGED <<items, deps, logs, learnVars, derived, calls>>

\* a key message arrives
KeyMsg(msg) ==
    /\ InFlight(msg)
    /\ msg.type = "KeyMsg"
    /\ Handled(handleKey(tui, msg.key), {msg})

\* a tea.WindowSizeMsg arrives
WindowSizeMsg(msg) ==
    /\ InFlight(msg)
    /\ msg.type = "WindowSizeMsg"
    /\ Handled(updateWindowSize(tui, msg.width), {msg})

\* the message of tea.Quit arrives: the program ends, no message is taken
\* after it
QuitMsg ==
    /\ \A c \in Quit : InFlight(c)
    /\ tui' = [tui EXCEPT !.quit = TRUE, !.pending = @ (-) SetToBag(Quit)]
    /\ UNCHANGED <<items, deps, logs, learnVars, derived, calls>>

\* a goroutine takes its next step: c is replaced by what it has become
Stepped(c, next) == tui' = [tui EXCEPT !.pending = (@ (-) SetToBag({c})) (+) SetToBag(next)]

\* the goroutine of a loadItems command calls ListItemsFiltered
LoadItemsList(c) ==
    /\ InFlight(c)
    /\ c.type = "loadItems" /\ c.pc = "ListItemsFiltered"
    /\ Stepped(c, {[c EXCEPT !.pc = "PopulateItemLabels", !.items = itemsMsgItems]})
    /\ UNCHANGED <<items, deps, logs, learnVars, derived, calls>>

\* the goroutine of a loadItems command calls PopulateItemLabels on the rows
\* it holds; its itemsMsg is on its way to Update
LoadItemsLabels(c) ==
    /\ InFlight(c)
    /\ c.type = "loadItems" /\ c.pc = "PopulateItemLabels"
    /\ \E rows \in PopulateItemLabels(c.items) :
          Stepped(c, {[type |-> "itemsMsg", items |-> rows]})
    /\ UNCHANGED <<items, deps, logs, learnVars, derived, calls>>

\* an itemsMsg arrives
ItemsMsg(msg) ==
    /\ InFlight(msg)
    /\ msg.type = "itemsMsg"
    /\ Handled(updateItems(tui, msg.items), {msg})

\* the goroutine of a loadDetail command calls GetLogs(id)
LoadDetailLogs(c) ==
    /\ InFlight(c)
    /\ c.type = "loadDetail" /\ c.pc = "GetLogs"
    /\ Stepped(c, {[c EXCEPT !.pc = "GetDeps", !.logs = GetLogs(c.id)]})
    /\ UNCHANGED <<items, deps, logs, learnVars, derived, calls>>

\* the goroutine of a loadDetail command calls GetDeps(id); its detailMsg is
\* on its way to Update
LoadDetailDeps(c) ==
    /\ InFlight(c)
    /\ c.type = "loadDetail" /\ c.pc = "GetDeps"
    /\ \E d \in GetDeps(c.id) :
          Stepped(c, {[type |-> "detailMsg", logs |-> c.logs, deps |-> d, id |-> c.id]})
    /\ UNCHANGED <<items, deps, logs, learnVars, derived, calls>>

\* the message of a loadDetail command arrives
DetailMsg(msg) ==
    /\ InFlight(msg)
    /\ msg.type = "detailMsg"
    /\ Handled(updateDetail(tui, msg), {msg})

\* ---- the user at the terminal ----

\* the texts typed into an input, each character by character
InputTexts == {<<"s", "d">>, <<"D", "c">>, <<"p", "2">>, <<"t", "s", "-", "2">>}

\* what has been typed of one of the texts
Typing(text) == \E t \in InputTexts : Len(text) <= Len(t) /\ SubSeq(t, 1, Len(text)) = text

\* the terminal's messages reach Update in the order of the events: the user
\* makes the next input when the last one has been delivered
TerminalIdle ==
    \A c \in BagToSet(tui.pending) : c.type \notin {"KeyMsg", "WindowSizeMsg"}

\* the user presses a key: its message is on its way to Update. A key that
\* goes on with one of the texts in an open input is typed freely, every
\* other key is one of the inputs the user has left
Typed(key) ==
    LET text == tui.inputMode # InputNone /\ key \in TextKeys
                    /\ Typing(Append(tui.inputText, key))
    IN /\ ~tui.quit
       /\ TerminalIdle
       /\ text \/ tui.left > 0
       /\ tui' = [tui EXCEPT !.pending = @ (+) SetToBag({[type |-> "KeyMsg", key |-> key]}),
                             !.left = IF text THEN @ ELSE @ - 1]
       /\ UNCHANGED <<items, deps, logs, learnVars, derived, calls>>

\* the user resizes the terminal: the tea.WindowSizeMsg is on its way to Update
Resized(width) ==
    /\ ~tui.quit
    /\ TerminalIdle
    /\ tui.left > 0
    /\ tui' = [tui EXCEPT
                  !.pending = @ (+) SetToBag({[type |-> "WindowSizeMsg", width |-> width]}),
                  !.left = @ - 1]
    /\ UNCHANGED <<items, deps, logs, learnVars, derived, calls>>

\* inputs the user makes on the store that does not change
MaxKeys == 5

\* inputs the user makes on the changing store, the characters of the texts
\* not counted
MaxActionKeys == 3

\* the keys pressed on the store that does not change, and the widths the
\* terminal takes
Keys == {"up", "down", "g", "G", "enter", "tab", "esc", "q", "1", "5", "0", "r"}
Widths == {79, 80}

\* the database the UI runs on: two open tasks and a done one, with
\* different logs and dependencies each
TUIStore ==
    [r \in {TUIIDs[n] : n \in 1..Len(TUIIDs)} |->
        [type |-> ItemTypeTask, status |-> IF r = "ts-3" THEN StatusDone ELSE StatusOpen,
         parent_id |-> NoParent, project |-> "p1",
         title |-> <<"t">>, description |-> <<>>]]

\* Run(db): New(db), then Init() starts loadItems
InitTUI ==
    /\ items = TUIStore
    /\ deps = {<<"ts-2", "ts-1">>, <<"ts-2", "ts-3">>}
    /\ logs = <<"ts-1", "ts-3", "ts-3">>
    /\ learnings = <<>>
    /\ concepts = <<>>
    /\ learning_concepts = {}
    /\ derived = NoResult
    /\ tui = [New EXCEPT !.pending = SetToBag(loadItems), !.left = MaxKeys]
    /\ calls = EmptyBag

NextTUI ==
    \/ \E key \in Keys : Typed(key)
    \/ \E width \in Widths : Resized(width)
    \/ \E msg \in BagToSet(tui.pending) : KeyMsg(msg)
    \/ \E msg \in BagToSet(tui.pending) : WindowSizeMsg(msg)
    \/ QuitMsg
    \/ \E c \in BagToSet(tui.pending) : LoadItemsList(c)
    \/ \E c \in BagToSet(tui.pending) : LoadItemsLabels(c)
    \/ \E msg \in BagToSet(tui.pending) : ItemsMsg(msg)
    \/ \E c \in BagToSet(tui.pending) : LoadDetailLogs(c)
    \/ \E c \in BagToSet(tui.pending) : LoadDetailDeps(c)
    \/ \E msg \in BagToSet(tui.pending) : DetailMsg(msg)

SpecTUI == InitTUI /\ [][NextTUI]_vars

\* ---- the terminal UI acting on the store ----

\* the goroutine of a store command has c.pc to run
Runs(c, op, pc) == InFlight(c) /\ c.type = "cmd" /\ c.op = op /\ c.pc = pc

\* the goroutine of a store command goes on to its next statement
CmdGoes(c, pc) == Stepped(c, {[c EXCEPT !.pc = pc]})

\* the goroutine of a store command returns; its actionMsg is on its way to Update
CmdReturns(c) == Stepped(c, actionMsg)

\* UpdateStatus of an action, up to its UPDATE
CmdUpdateStatusSelect(c) ==
    /\ Runs(c, "UpdateStatus", "SELECT")
    /\ IF UpdateStatusErr(c.id, c.status) # Nil THEN CmdReturns(c) ELSE CmdGoes(c, "UPDATE")
    /\ UNCHANGED <<items, deps, logs, learnVars, derived, calls>>

\* UpdateStatus of an action, its UPDATE; AddLog follows when the call
\* succeeded and a text was given
CmdUpdateStatusUpdate(c) ==
    /\ Runs(c, "UpdateStatus", "UPDATE")
    /\ items' = IF UpdateStatusUpdateErr(c.id) # Nil THEN items
                ELSE [items EXCEPT ![c.id].status = c.status]
    /\ IF UpdateStatusUpdateErr(c.id) = Nil /\ c.log
       THEN CmdGoes(c, "INSERT") ELSE CmdReturns(c)
    /\ UNCHANGED <<deps, logs, learnVars, derived, calls>>

\* AddLog of an action: after the UpdateStatus of a block or a cancel, or the
\* call of the log input
CmdAddLog(c, fk) ==
    /\ Runs(c, "UpdateStatus", "INSERT") \/ Runs(c, "AddLog", "INSERT")
    /\ logs' = IF AddLogErr(fk, c.id) # Nil THEN logs ELSE Append(logs, c.id)
    /\ CmdReturns(c)
    /\ UNCHANGED <<items, deps, learnVars, derived, calls>>

\* DeleteItem of an action, its SELECT COUNT(*)
CmdDeleteItemCount(c) ==
    /\ Runs(c, "DeleteItem", "COUNT")
    /\ IF c.id \notin Rows THEN CmdReturns(c) ELSE CmdGoes(c, "DELETE logs")
    /\ UNCHANGED <<items, deps, logs, learnVars, derived, calls>>

\* DeleteItem of an action, its DELETE FROM logs
CmdDeleteItemLogs(c) ==
    /\ Runs(c, "DeleteItem", "DELETE logs")
    /\ logs' = LogsWithout(c.id)
    /\ CmdGoes(c, "DELETE deps")
    /\ UNCHANGED <<items, deps, learnVars, derived, calls>>

\* DeleteItem of an action, its DELETE FROM deps
CmdDeleteItemDeps(c) ==
    /\ Runs(c, "DeleteItem", "DELETE deps")
    /\ deps' = DepsWithout(c.id)
    /\ CmdGoes(c, "DELETE items")
    /\ UNCHANGED <<items, logs, learnVars, derived, calls>>

\* DeleteItem of an action, its DELETE FROM items
CmdDeleteItemItems(c, fk) ==
    /\ Runs(c, "DeleteItem", "DELETE items")
    /\ items' = IF DeleteItemItemsErr(fk, c.id) # Nil THEN items
                ELSE [r \in Rows \ {c.id} |-> items[r]]
    /\ CmdReturns(c)
    /\ UNCHANGED <<deps, logs, learnVars, derived, calls>>

\* AddDep of the add-dependency input, its SELECT COUNT(*)
CmdAddDepCount(c) ==
    /\ Runs(c, "AddDep", "COUNT")
    /\ IF AddDepErr(c.id, TextID(c.dependsOn)) # Nil THEN CmdReturns(c)
       ELSE CmdGoes(c, "INSERT")
    /\ UNCHANGED <<items, deps, logs, learnVars, derived, calls>>

\* AddDep of the add-dependency input, its INSERT OR IGNORE INTO deps
CmdAddDepInsert(c, fk) ==
    /\ Runs(c, "AddDep", "INSERT")
    /\ deps' = IF AddDepInsertErr(fk, c.id, TextID(c.dependsOn)) # Nil THEN deps
               ELSE deps \cup {<<c.id, TextID(c.dependsOn)>>}
    /\ CmdReturns(c)
    /\ UNCHANGED <<items, logs, learnVars, derived, calls>>

\* the IDs GenerateID gives a new task
NewIDs == {"ts-3"}

\* CreateItem of the create input: an open task without a parent, a
\* description or labels; the INSERT fails on an ID that is taken
CmdCreateItem(c, id) ==
    /\ Runs(c, "CreateItem", "INSERT")
    /\ items' = IF CreateItemErr(TRUE, id, ItemTypeTask, c.project, StatusOpen, NoParent) # Nil
                THEN items
                ELSE [r \in Rows \cup {id} |->
                        IF r = id
                        THEN [type |-> ItemTypeTask, status |-> StatusOpen,
                              parent_id |-> NoParent, project |-> c.project,
                              title |-> c.title, description |-> <<>>]
                        ELSE items[r]]
    /\ CmdReturns(c)
    /\ UNCHANGED <<deps, logs, learnVars, derived, calls>>

\* the actionMsg of a store command arrives
ActionMsg ==
    /\ \A c \in actionMsg : InFlight(c)
    /\ Handled(updateAction(tui), actionMsg)

\* the keys pressed on the changing store: every key the handlers name, and
\* "-", which none of them names
AllKeys == TextKeys \cup NamedKeys

\* the store the actions run on: a task in progress and an open one, of two
\* projects, with texts the filters tell apart
ActionStore ==
    [r \in {"ts-1", "ts-2"} |->
        IF r = "ts-1"
        THEN [type |-> ItemTypeTask, status |-> StatusInProgress, parent_id |-> NoParent,
              project |-> "p1", title |-> <<"s", "d">>, description |-> <<>>]
        ELSE [type |-> ItemTypeTask, status |-> StatusOpen, parent_id |-> NoParent,
              project |-> "p2", title |-> <<"D">>, description |-> <<"D", "c">>]]

InitTUIStore ==
    /\ items = ActionStore
    /\ deps = {}
    /\ logs = <<>>
    /\ learnings = <<>>
    /\ concepts = <<>>
    /\ learning_concepts = {}
    /\ derived = NoResult
    /\ tui = [New EXCEPT !.pending = SetToBag(loadItems), !.left = MaxActionKeys]
    /\ calls = EmptyBag

NextTUIStore ==
    \/ \E key \in AllKeys : Typed(key)
    \/ \E width \in Widths : Resized(width)
    \/ \E msg \in BagToSet(tui.pending) : KeyMsg(msg)
    \/ \E msg \in BagToSet(tui.pending) : WindowSizeMsg(msg)
    \/ QuitMsg
    \/ \E c \in BagToSet(tui.pending) : CmdUpdateStatusSelect(c)
    \/ \E c \in BagToSet(tui.pending) : CmdUpdateStatusUpdate(c)
    \/ \E c \in BagToSet(tui.pending), fk \in ForeignKeys : CmdAddLog(c, fk)
    \/ \E c \in BagToSet(tui.pending) : CmdDeleteItemCount(c)
    \/ \E c \in BagToSet(tui.pending) : CmdDeleteItemLogs(c)
    \/ \E c \in BagToSet(tui.pending) : CmdDeleteItemDeps(c)
    \/ \E c \in BagToSet(tui.pending), fk \in ForeignKeys : CmdDeleteItemItems(c, fk)
    \/ \E c \in BagToSet(tui.pending) : CmdAddDepCount(c)
    \/ \E c \in BagToSet(tui.pending), fk \in ForeignKeys : CmdAddDepInsert(c, fk)
    \/ \E c \in BagToSet(tui.pending), id \in NewIDs : CmdCreateItem(c, id)
    \/ ActionMsg
    \/ \E c \in BagToSet(tui.pending) : LoadItemsList(c)
    \/ \E c \in BagToSet(tui.pending) : LoadItemsLabels(c)
    \/ \E msg \in BagToSet(tui.pending) : ItemsMsg(msg)
    \/ \E c \in BagToSet(tui.pending) : LoadDetailLogs(c)
    \/ \E c \in BagToSet(tui.pending) : LoadDetailDeps(c)
    \/ \E msg \in BagToSet(tui.pending) : DetailMsg(msg)

SpecTUIStore == InitTUIStore /\ [][NextTUIStore]_vars

\* ---- properties ----

Terminal == {StatusDone, StatusCanceled}

\* the effective status of x is done or canceled
Resolved(x) == DeriveEpicStatus(x) \in Terminal

\* row id is in the scope of a query for project
InScope(id, project) == project = "" \/ items[id].project = project

\* the step is the UPDATE of an UpdateStatus(id, s) call
UpdateStatusStored(id, s) ==
    \E c \in BagToSet(calls) :
        c.op = "UpdateStatus" /\ c.args = <<id, s>> /\ UpdateStatusUpdate(c)

\* C1: equivalence law. For every item X the Go derivation DeriveEpicStatus(X) is
\* done or canceled exactly when the SQL predicate depUnresolvedExpr is false for
\* X, and an edge pointing at X counts as unmet in HasUnmetDeps exactly when the
\* derivation of X is not done or canceled.
C1_EquivalenceLaw ==
    /\ \A x \in Rows : Resolved(x) <=> ~depUnresolvedExpr(x)
    /\ \A d \in deps : (d[2] \in Rows /\ ~Resolved(d[2])) => HasUnmetDeps(d[1])
    /\ \A i \in Rows : HasUnmetDeps(i) => \E d \in deps : d[1] = i /\ ~Resolved(d[2])

\* an epic stored open, closed by its children alone, is the target of an edge
\* that does not count as unmet
C1_Witness ==
    \E d \in deps :
        /\ d[1] \in Rows /\ d[2] \in Rows
        /\ items[d[2]].type = ItemTypeEpic
        /\ items[d[2]].status = StatusOpen
        /\ Children(d[2]) # {}
        /\ DeriveEpicStatus(d[2]) = StatusDone
        /\ ~HasUnmetDeps(d[1])

\* C2: manual override. An epic whose stored status is done or canceled reports
\* that status from DeriveEpicStatus and GetItem, whatever its children are.
C2_ManualOverride ==
    \A e \in Rows :
        (items[e].type = ItemTypeEpic /\ items[e].status \in Terminal)
            => /\ DeriveEpicStatus(e) = items[e].status
               /\ GetItem(e) = items[e].status

\* a canceled epic that has an open child and a done child
C2_Witness ==
    \E e \in Rows :
        /\ items[e].type = ItemTypeEpic
        /\ items[e].status = StatusCanceled
        /\ \E c \in Children(e) : items[c].status = StatusOpen
        /\ \E c \in Children(e) : items[c].status = StatusDone
        /\ GetItem(e) = StatusCanceled

\* C3: a task's effective status, as reported by DeriveEpicStatus, GetItem and the
\* list queries, is its stored status, also when other items name it as parent.
C3_TaskStatusIsStored ==
    LET tasks == {t \in Rows : items[t].type = ItemTypeTask}
    IN /\ \A t \in tasks :
            /\ DeriveEpicStatus(t) = items[t].status
            /\ GetItem(t) = items[t].status
       /\ tasks # {} =>
            \A p \in Projects, f \in Statuses \cup {NoStatus} :
                LET listed == ListItems(p, f)
                IN \A t \in tasks :
                    /\ \A r \in listed : r[1] = t => r[2] = items[t].status
                    /\ (InScope(t, p) /\ f \in {NoStatus, items[t].status})
                          => <<t, items[t].status>> \in listed

\* an open task that is the parent of a done item and is listed as open
C3_Witness ==
    \E t \in Rows :
        /\ items[t].type = ItemTypeTask
        /\ items[t].status = StatusOpen
        /\ \E c \in Children(t) : c # t /\ items[c].status = StatusDone
        /\ <<t, StatusOpen>> \in ListItems("", StatusOpen)

\* what the derivation rule gives an epic with a non-terminal stored status and at
\* least one child, stated on the children themselves
DerivationRule(e) ==
    IF \A c \in Children(e) : items[c].status \in Terminal THEN StatusDone
    ELSE IF \A c \in Children(e) :
                items[c].status \notin Terminal => items[c].status = StatusBlocked
        THEN StatusBlocked
    ELSE IF \E c \in Children(e) :
                items[c].status \in {StatusInProgress, StatusReviewing, StatusDone}
        THEN StatusInProgress
    ELSE StatusOpen

\* C4: for an epic with a non-terminal stored status and at least one child,
\* DeriveEpicStatus returns done if every child is done or canceled, otherwise
\* blocked if every unresolved child is blocked, otherwise in_progress if a child
\* is in_progress, reviewing or done, otherwise open.
C4_DerivationRule ==
    (/\ derived # NoResult
     /\ items[DeriveEpic].status \notin Terminal
     /\ Children(DeriveEpic) # {})
        => derived = DerivationRule(DeriveEpic)

\* the derivation returned blocked for an epic with a blocked and a done child
C4_Witness ==
    /\ derived = StatusBlocked
    /\ items[DeriveEpic].status \notin Terminal
    /\ \E c \in Children(DeriveEpic) : items[c].status = StatusDone
    /\ \E c \in Children(DeriveEpic) : items[c].status = StatusBlocked

\* C5 as stated: an epic without children whose stored status is not done or
\* canceled has effective status open.
C5_EmptyEpicIsOpen ==
    \A e \in Rows :
        (items[e].type = ItemTypeEpic /\ Children(e) = {} /\ items[e].status \notin Terminal)
            => DeriveEpicStatus(e) = StatusOpen

\* C5 amended: an epic without children whose stored status is not done or
\* canceled has its stored status as effective status (open when it is stored
\* open).
C5_EmptyEpicIsStored ==
    \A e \in Rows :
        (items[e].type = ItemTypeEpic /\ Children(e) = {} /\ items[e].status \notin Terminal)
            => /\ DeriveEpicStatus(e) = items[e].status
               /\ GetItem(e) = items[e].status

\* an epic without children stored in_progress reports in_progress
C5_Witness ==
    \E e \in Rows :
        /\ items[e].type = ItemTypeEpic
        /\ Children(e) = {}
        /\ items[e].status = StatusInProgress
        /\ DeriveEpicStatus(e) = StatusInProgress

\* epic e has a non-terminal stored status and is done through its children
DoneByChildren(e) ==
    /\ items[e].type = ItemTypeEpic
    /\ items[e].status \notin Terminal
    /\ Children(e) # {}
    /\ DeriveEpicStatus(e) = StatusDone

\* the step is the UPDATE of a successful UpdateStatus(c, open) on a child of
\* an epic that was done through its children
Reopened(e, c) ==
    /\ DoneByChildren(e)
    /\ c \in Children(e)
    /\ UpdateStatusStored(c, StatusOpen)

\* C6 as stated: reopening a child of an epic that is done through its children
\* makes the epic in_progress.
C6_ReopenGivesInProgress ==
    [][items' # items =>
        \A e \in Rows, c \in Rows :
            Reopened(e, c) => (DeriveEpicStatus(e))' = StatusInProgress]_vars

\* C6 amended: reopening a child of an epic that is done through its children
\* makes the epic in_progress if another of its children is done, and open
\* otherwise (the reopened child is the only one, or the others are canceled).
C6_ReopenGivesInProgressOrOpen ==
    [][items' # items =>
        \A e \in Rows, c \in Rows :
            Reopened(e, c) =>
                (DeriveEpicStatus(e))' =
                    IF \E o \in Children(e) \ {c} : items[o].status = StatusDone
                    THEN StatusInProgress ELSE StatusOpen]_vars

\* an epic with an open child and a done child reads in_progress
C6_Witness ==
    \E e \in Rows :
        /\ items[e].type = ItemTypeEpic
        /\ items[e].status = StatusOpen
        /\ \E c \in Children(e) : items[c].status = StatusOpen
        /\ \E c \in Children(e) : items[c].status = StatusDone
        /\ DeriveEpicStatus(e) = StatusInProgress

\* C7: ReadyItems(project) is exactly the tasks in scope with stored status open
\* for which HasUnmetDeps is false; no epic and no task that is not open is in it.
C7_ReadyItemsExact ==
    \A p \in Projects :
        /\ ReadyItems(p) =
              {id \in Rows : /\ InScope(id, p)
                             /\ items[id].type = ItemTypeTask
                             /\ items[id].status = StatusOpen
                             /\ ~HasUnmetDeps(id)}
        /\ \A id \in ReadyItems(p) :
              items[id].type # ItemTypeEpic /\ items[id].status = StatusOpen

\* an open epic without unmet dependencies is left out while a task with a
\* resolved dependency is returned, and the project narrows the result
C7_Witness ==
    /\ \E e \in Rows :
          /\ items[e].type = ItemTypeEpic
          /\ items[e].status = StatusOpen
          /\ ~HasUnmetDeps(e)
          /\ e \notin ReadyItems("")
    /\ \E t \in ReadyItems("") : \E d \in deps : d[1] = t
    /\ \E p \in Projects : ReadyItems(p) # ReadyItems("")

\* open task T depends on epic E, which is stored open and has a child
DependsOnOpenEpic(T, E) ==
    /\ items[T].type = ItemTypeTask
    /\ items[T].status = StatusOpen
    /\ <<T, E>> \in deps
    /\ items[E].type = ItemTypeEpic
    /\ items[E].status = StatusOpen
    /\ Children(E) # {}

\* every dependency of T other than E is resolved
OtherDepsResolved(T, E) ==
    \A d \in deps : (d[1] = T /\ d[2] # E) => Resolved(d[2])

\* T is kept out of ReadyItems while a child of E is not done or canceled
C8_AbsentWhileChildOpen ==
    \A T \in Rows, E \in Rows :
        (DependsOnOpenEpic(T, E) /\ \E c \in Children(E) : items[c].status \notin Terminal)
            => \A p \in Projects : T \notin ReadyItems(p)

\* the step sets the last unresolved child of E to done or canceled, and T is
\* returned by the query that follows
C8_PresentAfterLastChild ==
    items' # items =>
    \A T \in Rows, E \in Rows, c \in Rows, s \in Terminal :
        (/\ DependsOnOpenEpic(T, E)
         /\ c \in Children(E)
         /\ items[c].status \notin Terminal
         /\ UpdateStatusStored(c, s)
         /\ (DependsOnOpenEpic(T, E))'
         /\ (\A k \in Children(E) : items[k].status \in Terminal)'
         /\ (OtherDepsResolved(T, E))')
            => (T \in ReadyItems("") /\ T \in ReadyItems(items[T].project))'

\* C8: an open task T that depends on an epic E stored open with at least one
\* child is absent from ReadyItems while a child of E is not done or canceled,
\* and is in ReadyItems right after the last such child is set to done or
\* canceled, T's other dependencies being resolved.
C8_EpicDepGate ==
    []C8_AbsentWhileChildOpen /\ [][C8_PresentAfterLastChild]_vars

\* T is ready through an epic closed by its children
C8_Witness ==
    \E T \in Rows, E \in Rows :
        /\ DependsOnOpenEpic(T, E)
        /\ \A k \in Children(E) : items[k].status \in Terminal
        /\ T \in ReadyItems("")

\* the dependencies of T that are not resolved
UnresolvedDepsOf(T) == {d[2] : d \in {x \in deps : x[1] = T /\ ~Resolved(x[2])}}

\* C9: when an open task has exactly one unresolved dependency B, a successful
\* UpdateStatus(B, canceled) puts the task in the next ReadyItems result.
C9_CancelSoleBlocker ==
    [][items' # items =>
        \A T \in Rows, B \in Rows :
            (/\ items[T].type = ItemTypeTask
             /\ items[T].status = StatusOpen
             /\ UnresolvedDepsOf(T) = {B}
             /\ UpdateStatusStored(B, StatusCanceled))
                => (T \in ReadyItems("") /\ T \in ReadyItems(items[T].project))']_vars

\* an open task whose dependencies are a canceled item and another resolved
\* item is ready
C9_Witness ==
    \E T \in Rows :
        /\ items[T].type = ItemTypeTask
        /\ \E d \in deps : d[1] = T /\ d[2] \in Rows /\ items[d[2]].status = StatusCanceled
        /\ Cardinality({d \in deps : d[1] = T}) = 2
        /\ T \in ReadyItems("")

\* the target X of an edge is unresolved: its stored status is neither done nor
\* canceled and it is not an epic with children that are all done or canceled
TargetUnresolved(X) ==
    /\ items[X].status \notin Terminal
    /\ ~(/\ items[X].type = ItemTypeEpic
         /\ Children(X) # {}
         /\ \A c \in Children(X) : items[c].status \in Terminal)

\* C10: HasUnmetDeps(item) is true exactly when some edge (item, X) has an
\* unresolved target X; it is false for an item without edges and true when a
\* target's effective status is open, in_progress, blocked or reviewing.
C10_HasUnmetDeps ==
    \A i \in Rows :
        /\ HasUnmetDeps(i) <=>
              \E d \in deps : d[1] = i /\ d[2] \in Rows /\ TargetUnresolved(d[2])
        /\ ({d \in deps : d[1] = i} = {}) => ~HasUnmetDeps(i)
        /\ \A d \in deps :
              (/\ d[1] = i
               /\ d[2] \in Rows
               /\ DeriveEpicStatus(d[2]) \in
                     {StatusOpen, StatusInProgress, StatusBlocked, StatusReviewing})
                  => HasUnmetDeps(i)

\* an item with a resolved and a reviewing dependency has unmet dependencies
\* while another item has none
C10_Witness ==
    /\ \E i \in Rows :
          /\ HasUnmetDeps(i)
          /\ \E d \in deps : d[1] = i /\ d[2] \in Rows /\ ~TargetUnresolved(d[2])
          /\ \E d \in deps : d[1] = i /\ d[2] \in Rows /\ items[d[2]].status = StatusReviewing
    /\ \E j \in Rows : ~HasUnmetDeps(j)

\* ids of the rows a ListItemsFiltered call returns
ListedIDs(filter) == {r[1] : r \in ListItemsFiltered(filter)}

\* C11: ListItemsFiltered{HasBlockers: true} returns exactly the items whose
\* HasUnmetDeps is true and ListItemsFiltered{NoBlockers: true} exactly those
\* whose HasUnmetDeps is false, so every item is in exactly one of the two lists.
C11_BlockerFiltersPartition ==
    LET has == ListedIDs([ListFilter EXCEPT !.HasBlockers = TRUE])
        no == ListedIDs([ListFilter EXCEPT !.NoBlockers = TRUE])
    IN /\ has = {id \in Rows : HasUnmetDeps(id)}
       /\ no = {id \in Rows : ~HasUnmetDeps(id)}
       /\ has \cup no = Rows
       /\ has \cap no = {}

\* an item with one resolved and no unresolved dependency next to an item with
\* an unresolved one: both lists are non-empty
C11_Witness ==
    \E a \in Rows, b \in Rows :
        /\ HasUnmetDeps(a)
        /\ ~HasUnmetDeps(b)
        /\ \E d \in deps : d[1] = b
        /\ a \in ListedIDs([ListFilter EXCEPT !.HasBlockers = TRUE])
        /\ b \in ListedIDs([ListFilter EXCEPT !.NoBlockers = TRUE])

\* the epics stored
Epics == {e \in Rows : items[e].type = ItemTypeEpic}

\* the four statuses an epic only gets by derivation
NonTerminal == Statuses \ Terminal

\* UpdateStatus(e, s) is refused for the four derived statuses and accepted for
\* done and canceled, whatever the children of e are
C12_EpicErrors ==
    \A e \in Epics :
        /\ \A s \in NonTerminal : UpdateStatusErr(e, s) = "epic status is derived from children"
        /\ \A s \in Terminal : UpdateStatusErr(e, s) = Nil

\* no UpdateStatus call on an epic has got as far as its UPDATE with one of
\* the four derived statuses
C12_NoDerivedStatusToStore ==
    \A c \in BagToSet(calls) :
        (c.op = "UpdateStatus" /\ c.args[1] \in Epics) => c.args[2] \in Terminal

\* the UPDATE of an accepted UpdateStatus(e, s) on an epic stores s and
\* nothing else
C12_EpicStores ==
    \A e \in Epics, s \in Terminal :
        UpdateStatusStored(e, s) =>
            /\ DOMAIN items' = Rows
            /\ items'[e] = [items[e] EXCEPT !.status = s]
            /\ \A r \in Rows \ {e} : items'[r] = items[r]

\* C12: UpdateStatus(epicId, s) on an epic fails for s in open, in_progress,
\* blocked, reviewing and succeeds, storing s, for s in done, canceled,
\* regardless of the stored statuses of its children.
C12_EpicUpdateStatus ==
    [](C12_EpicErrors /\ C12_NoDerivedStatusToStore) /\ [][C12_EpicStores]_vars

\* an epic stored done or canceled over a child that is still open, next to
\* the refusal of every derived status
C12_Witness ==
    \E e \in Epics :
        /\ items[e].status \in Terminal
        /\ \E c \in Children(e) : c # e /\ items[c].status \in NonTerminal
        /\ UpdateStatusErr(e, StatusOpen) # Nil
        /\ UpdateStatusErr(e, StatusCanceled) = Nil

\* no step that changes a table is a step of an UpdateStatus call that
\* returns an error: neither the step of its checks nor the step of an UPDATE
\* that finds no row
C13_FailedUpdateStatus ==
    <<items, deps, logs, learnVars>>' # <<items, deps, logs, learnVars>> =>
        /\ \A id \in IDs, s \in StatusInputs :
              UpdateStatusErr(id, s) # Nil => ~UpdateStatusSelect(id, s)
        /\ \A c \in BagToSet(calls) :
              UpdateStatusUpdateErr(c.args[1]) # Nil => ~UpdateStatusUpdate(c)

\* C13: every failing UpdateStatus call (invalid status, id not found, or a
\* non-terminal status on an epic) leaves all stored data unchanged: no step
\* that changes a table is the step of a failing call.
C13_FailedUpdateStatusKeepsData == [][C13_FailedUpdateStatus]_vars

\* a state in which each of the failures is on offer: an epic, a missing id,
\* an invalid status, and a call whose row was deleted before its UPDATE,
\* next to a stored edge
C13_Witness ==
    \E e \in Epics, m \in IDs \ Rows, c \in BagToSet(calls) :
        /\ deps # {}
        /\ UpdateStatusErr(e, StatusInProgress) = "epic status is derived from children"
        /\ UpdateStatusErr(m, StatusDone) = "item not found"
        /\ UpdateStatusErr(e, "pending") = "invalid status"
        /\ c.op = "UpdateStatus"
        /\ UpdateStatusUpdateErr(c.args[1]) = "item not found"

\* AddDep(a, b) is refused when a or b is not a stored item: the check that
\* follows the SELECT COUNT(*) returns the error
C14_MissingEndpointErrors ==
    \A a \in IDs, b \in IDs :
        (a \notin Rows \/ b \notin Rows) => AddDepErr(a, b) = "one or both items not found"

\* such a call changes no edge and goes on to no INSERT, and an INSERT that
\* returns an error changes no edge
C14_MissingEndpointKeepsEdges ==
    /\ (deps' # deps \/ calls' # calls) =>
          \A a \in IDs, b \in IDs :
              (a \notin Rows \/ b \notin Rows) => ~AddDepCount(a, b)
    /\ \A c \in BagToSet(calls), fk \in ForeignKeys :
          (AddDepInsert(c, fk) /\ AddDepInsertErr(fk, c.args[1], c.args[2]) # Nil)
              => deps' = deps

\* C14: AddDep(itemId, dependsOnId) fails when either endpoint does not exist
\* as an item, and the edge set is unchanged.
C14_AddDepMissingEndpoint ==
    []C14_MissingEndpointErrors /\ [][C14_MissingEndpointKeepsEdges]_vars

\* edges were added, and calls with a missing source and with a missing
\* target are on offer
C14_Witness ==
    \E a \in Rows, m \in IDs \ Rows :
        /\ deps # {}
        /\ AddDepErr(a, m) # Nil
        /\ AddDepErr(m, a) # Nil

\* AddDep of an edge that is already stored returns no error
C15_ExistingEdgeNoError == \A d \in deps : AddDepErr(d[1], d[2]) = Nil

\* GetDeps lists each stored edge of the item once
C15_GetDepsDistinct ==
    \A a \in Rows : \A got \in GetDeps(a) :
        /\ \A i \in 1..Len(got), j \in 1..Len(got) : i # j => got[i] # got[j]
        /\ {got[i] : i \in 1..Len(got)} = {d[2] : d \in {x \in deps : x[1] = a}}

\* no step that changes the edge set is the INSERT of an AddDep of a stored edge
C15_ExistingEdgeKeepsEdges ==
    deps' # deps =>
        \A c \in BagToSet(calls), fk \in ForeignKeys :
            (c.op = "AddDep" /\ <<c.args[1], c.args[2]>> \in deps) => ~AddDepInsert(c, fk)

\* C15: AddDep is idempotent: adding an edge that already exists succeeds
\* without error and leaves the edge set unchanged, and GetDeps never lists
\* the same dependency twice.
C15_AddDepIdempotent ==
    /\ [](C15_ExistingEdgeNoError /\ C15_GetDepsDistinct)
    /\ [][C15_ExistingEdgeKeepsEdges]_vars

\* C16: in every state reachable through CreateItem, SetParent, UpdateStatus
\* and DeleteItem, every item with a parent_id refers to an existing item of
\* type epic (CreateItem with ParentID set and SetParent being expected to
\* fail when the referenced parent is missing or is not an epic).
C16_ParentIsExistingEpic ==
    \A c \in Rows :
        items[c].parent_id # NoParent =>
            /\ items[c].parent_id \in Rows
            /\ items[items[c].parent_id].type = ItemTypeEpic

\* both endpoints of every dependency edge are stored items
C17_EndpointsExist == \A d \in deps : d[1] \in Rows /\ d[2] \in Rows

\* when the last statement of a DeleteItem(id) call has run and the call
\* returns nil, no edge touches id and no log row is id's
C17_ReturnedDeleteClearsEdgesAndLogs ==
    \A c \in BagToSet(calls), fk \in ForeignKeys :
        (DeleteItemItems(c, fk) /\ DeleteItemItemsErr(fk, c.args[1]) = Nil) =>
            /\ c.args[1] \notin DOMAIN items'
            /\ \A d \in deps' : d[1] # c.args[1] /\ d[2] # c.args[1]
            /\ \A i \in 1..Len(logs') : logs'[i] # c.args[1]

\* C17: both endpoints of every dependency edge exist as items; after a
\* successful DeleteItem(id), no edge with id as either endpoint and no log
\* entry of id remains.
C17_EdgesAndLogsFollowItems ==
    /\ []C17_EndpointsExist
    /\ [][C17_ReturnedDeleteClearsEdgesAndLogs]_vars

\* when the last statement of a DeleteItem call returns an error, no DELETE
\* of the call has deleted a row
C18_FailedDeleteKeepsData ==
    \A c \in BagToSet(calls), fk \in ForeignKeys :
        (DeleteItemItems(c, fk) /\ DeleteItemItemsErr(fk, c.args[1]) # Nil)
            => c.args[2] = NoRows

\* C18: DeleteItem is all-or-nothing: when it returns an error, the item, its
\* log entries and every dependency edge touching it are all still present
\* exactly as before the call.
C18_DeleteAllOrNothing == [][C18_FailedDeleteKeepsData]_vars

\* C19: CreateLearning is all-or-nothing: if any step fails (learning insert,
\* concept creation or update, or association insert), no learning row, no
\* newly created concept and no learning-concept association from that call
\* is persisted: a call that returns an error leaves the three tables as
\* they are.
C19_CreateLearningAllOrNothing ==
    \A l \in LearningInputs, fault \in 0..MaxStatements, fk \in ForeignKeys :
        CreateLearningErr(l, fault, fk) # Nil
            => CreateLearningStore(l, fault, fk) = learnVars

\* a learning is stored, and a call is on offer that inserts its learning row,
\* creates a concept and stores an association before its second association
\* insert fails
C19_Witness ==
    \E l \in LearningInputs :
        /\ learnings # <<>>
        /\ l.ID \notin DOMAIN learnings
        /\ Len(l.Concepts) = 2
        /\ l.Concepts[1] = l.Concepts[2]
        /\ <<l.Concepts[1], l.Project>> \notin DOMAIN concepts
        /\ CreateLearningErr(l, 0, TRUE) = "failed to create concept association"

\* g is a child of a child epic of e, and neither e itself nor a child of e
Grandchild(e, g) ==
    /\ g # e
    /\ g \notin Children(e)
    /\ \E m \in Children(e) : items[m].type = ItemTypeEpic /\ g \in Children(m)

\* a step that keeps the stored status of e and the set and the stored
\* statuses of its direct children keeps the effective status of e
C20_OwnAndChildrenOnly ==
    \A e \in Epics :
        (/\ e \in DOMAIN items'
         /\ items'[e] = items[e]
         /\ {c \in DOMAIN items' : items'[c].parent_id = e} = Children(e)
         /\ \A c \in Children(e) : items'[c].status = items[c].status)
        => DeriveEpicStatus(e)' = DeriveEpicStatus(e)

\* the UPDATE of an UpdateStatus on a grandchild of e keeps the effective
\* status of e
C20_GrandchildStep ==
    \A e \in Epics, g \in Rows :
        (Grandchild(e, g) /\ \E s \in Statuses : UpdateStatusStored(g, s))
            => DeriveEpicStatus(e)' = DeriveEpicStatus(e)

\* C20: derivation is one level deep: an epic's effective status is a
\* function only of its own stored status and its direct children's stored
\* statuses; changing a grandchild's status never changes the epic's effective
\* status, even when it changes the child epic's effective status.
C20_OneLevelDeep ==
    [][items' # items => (C20_OwnAndChildrenOnly /\ C20_GrandchildStep)]_vars

\* an epic over a child epic over a grandchild: the grandchild is done, which
\* makes the child epic effectively done while it is stored open, and the
\* epic reads the stored open
C20_Witness ==
    \E e \in Epics, m \in Epics, g \in Rows :
        /\ m \in Children(e)
        /\ g \in Children(m)
        /\ Grandchild(e, g)
        /\ Children(e) = {m}
        /\ items[g].status = StatusDone
        /\ items[m].status = StatusOpen
        /\ DeriveEpicStatus(m) = StatusDone
        /\ items[e].status = StatusOpen
        /\ DeriveEpicStatus(e) = StatusOpen

\* a step of one of the seven reads
ReadStep ==
    \/ \E id \in IDs : GetItemCall(id) \/ DeriveEpicStatusCall(id) \/ HasUnmetDepsCall(id)
    \/ \E f \in ReadFilters : ListItemsFilteredCall(f)
    \/ \E p \in Projects : ReadyItemsCall(p) \/ ProjectStatusCall(p) \/ GetAllDepsCall(p)

\* no step that changes a table is the step of a read
C21_ReadsKeepData ==
    <<items, deps, logs, learnVars>>' # <<items, deps, logs, learnVars>> => ~ReadStep

\* a successful UpdateStatus(c, s) changes the stored status of c and no
\* other row, the parent epic of c included: its first statement writes
\* nothing, its UPDATE this
C21_UpdateStatusOnlyChild ==
    /\ \A c \in IDs, s \in Statuses : UpdateStatusSelect(c, s) => items' = items
    /\ items' # items =>
        \A c \in Rows, s \in Statuses :
            UpdateStatusStored(c, s) =>
                /\ DOMAIN items' = Rows
                /\ \A r \in Rows \ {c} : items'[r] = items[r]
                /\ items'[c] = [items[c] EXCEPT !.status = s]

\* C21: derivation and resolution are pure reads: DeriveEpicStatus, GetItem,
\* ListItemsFiltered, ReadyItems, HasUnmetDeps, GetAllDeps and ProjectStatus
\* never modify stored data, and a successful UpdateStatus on a child changes
\* only that child's stored status, never the stored status of its parent epic.
C21_PureReads == [][C21_ReadsKeepData /\ C21_UpdateStatusOnlyChild]_vars

\* an epic stored open whose only child is done: every read reports it done,
\* the row still says open
C21_Witness ==
    \E e \in Epics, c \in Rows :
        /\ c # e
        /\ Children(e) = {c}
        /\ items[c].status = StatusDone
        /\ items[e].status = StatusOpen
        /\ GetItem(e) = StatusDone
        /\ deps # {}

\* C22: in every state reachable through the store's write operations,
\* derivation counts every child of an epic in exactly one status bucket and
\* the bucket counts sum to the number of children, so deriveFromChildren
\* never returns the partition-mismatch error or the unknown-child-status error.
C22_BucketsPartitionChildren ==
    \A e \in Rows :
        /\ \A c \in Children(e) :
              Cardinality({s \in Statuses : items[c].status = s}) = 1
        /\ ChildCount(e, StatusOpen) + ChildCount(e, StatusDone)
             + ChildCount(e, StatusCanceled) + ChildCount(e, StatusBlocked)
             + ChildCount(e, StatusInProgress) + ChildCount(e, StatusReviewing)
           = Cardinality(Children(e))
        /\ SumCounts(e, ChildStatusRows(e)) = Cardinality(Children(e))
        /\ deriveFromChildren(e, StatusOpen) \in Statuses
        /\ deriveFromChildren(e, items[e].status) \in Statuses

\* an epic with two children in two different buckets, one of them moved
\* there by UpdateStatus
C22_Witness ==
    \E e \in Epics :
        /\ Cardinality(Children(e)) = 2
        /\ Cardinality(ChildStatusRows(e)) = 2
        /\ StatusCanceled \in ChildStatusRows(e)
        /\ deriveFromChildren(e, StatusOpen) \in Statuses

\* the effective status of a stored item: derived for an epic, stored for a task
EffectiveStatus(id) == DeriveEpicStatus(id)

\* C23: ProjectStatus counts every item in scope exactly once, under its
\* effective status: Open+InProgress+Blocked+Reviewing+Done+Canceled equals the
\* number of items in scope, and an epic is counted under its derived status
\* rather than its stored status.
C23_ProjectStatusCounts ==
    \A p \in Projects :
        LET rep == ProjectStatus(p)
            scope == {id \in Rows : InScope(id, p)}
            under(s) == Cardinality({id \in scope : EffectiveStatus(id) = s})
        IN /\ rep.Open + rep.InProgress + rep.Blocked + rep.Reviewing + rep.Done + rep.Canceled
                = Cardinality(scope)
           /\ rep.Open = under(StatusOpen)
           /\ rep.InProgress = under(StatusInProgress)
           /\ rep.Blocked = under(StatusBlocked)
           /\ rep.Reviewing = under(StatusReviewing)
           /\ rep.Done = under(StatusDone)
           /\ rep.Canceled = under(StatusCanceled)

\* an epic stored open with one child done and one open is counted in
\* progress, next to its two children
C23_Witness ==
    \E e \in Epics :
        /\ items[e].status = StatusOpen
        /\ EffectiveStatus(e) = StatusInProgress
        /\ Cardinality(Children(e)) = 2
        /\ ProjectStatus(items[e].project).InProgress = 1
        /\ ProjectStatus("").Open = 1
        /\ ProjectStatus("").Done = 1

\* the other filters a status filter is combined with
C24_OtherFilters ==
    {ListFilter, [ListFilter EXCEPT !.Type = ItemTypeEpic],
     [ListFilter EXCEPT !.Parent = "ep-1"], [ListFilter EXCEPT !.NoBlockers = TRUE]}

\* C24: ListItemsFiltered with a status filter returns exactly the items
\* (matching the other filters) whose effective status equals the filter
\* value: tasks are selected by stored status and epics by derived status.
C24_StatusFilterIsEffective ==
    \A f \in C24_OtherFilters :
        LET unfiltered == ListedIDs(f)
        IN \A s \in Statuses :
              LET listed == ListItemsFiltered([f EXCEPT !.Status = s])
              IN /\ {r[1] : r \in listed} = {id \in unfiltered : EffectiveStatus(id) = s}
                 /\ \A r \in listed : r[2] = s

\* an epic stored open and derived in_progress is listed under in_progress
\* and not under open, where its open child is listed
C24_Witness ==
    \E e \in Epics, c \in Rows :
        /\ items[e].status = StatusOpen
        /\ EffectiveStatus(e) = StatusInProgress
        /\ c \in Children(e) /\ items[c].type = ItemTypeTask /\ items[c].status = StatusOpen
        /\ e \in ListedIDs([ListFilter EXCEPT !.Status = StatusInProgress])
        /\ e \notin ListedIDs([ListFilter EXCEPT !.Status = StatusOpen])
        /\ c \in ListedIDs([ListFilter EXCEPT !.Status = StatusOpen])

\* seq is sorted by priority ascending, ties by creation time ascending
SortedByPriorityThenAge(seq) ==
    \A i \in 1..Len(seq), j \in 1..Len(seq) :
        i < j =>
            /\ items[seq[i]].priority <= items[seq[j]].priority
            /\ (items[seq[i]].priority = items[seq[j]].priority
                  => items[seq[i]].created_at <= items[seq[j]].created_at)

\* C25: ReadyItems and ListItemsFiltered return their items sorted by priority
\* ascending, with ties broken by creation time ascending.
C25_SortedResults ==
    /\ SortedByPriorityThenAge(derived)
    /\ \A seq \in ReadyItemsOrdered("") :
          SortedByPriorityThenAge(seq) /\ {seq[i] : i \in 1..Len(seq)} = ReadyItems("")
    /\ \A f \in OrderFilters :
          \A seq \in ListItemsFilteredOrdered(f) :
              SortedByPriorityThenAge(seq) /\ {seq[i] : i \in 1..Len(seq)} = ListedIDs(f)

\* three rows were returned: two share a priority and differ in creation time,
\* and a row of a higher priority value was created before both
C25_Witness ==
    /\ Len(derived) = 3
    /\ items[derived[1]].priority = items[derived[2]].priority
    /\ items[derived[1]].created_at < items[derived[2]].created_at
    /\ items[derived[2]].priority < items[derived[3]].priority
    /\ items[derived[3]].created_at < items[derived[1]].created_at

\* the items reached from the set S along at most n more dependency edges
RECURSIVE DepClosure(_, _)
DepClosure(S, n) ==
    IF n = 0 THEN S
    ELSE DepClosure(S \cup {d[2] : d \in {x \in deps : x[1] \in S}}, n - 1)

\* the items x depends on, directly or through other items
DependsOnTransitively(x) ==
    DepClosure({d[2] : d \in {e \in deps : e[1] = x}}, Cardinality(IDs))

\* the items on a dependency cycle through x
CycleThrough(x) == {y \in DependsOnTransitively(x) : x \in DependsOnTransitively(y)}

Tasks == {t \in Rows : items[t].type = ItemTypeTask}

\* every edge between two distinct stored items is accepted, cycle or not
C26_NoCycleDetection ==
    \A a \in Rows, b \in Rows : a # b => AddDepErr(a, b) = Nil

\* C26: AddDep performs no cycle detection: an edge between two distinct
\* existing items is accepted even when it closes a dependency cycle, and as
\* long as every task on such a cycle keeps a non-terminal stored status none
\* of those tasks is ever returned by ReadyItems.
C26_CycleTasksNeverReady ==
    /\ C26_NoCycleDetection
    /\ \A x \in Rows :
          (/\ CycleThrough(x) # {}
           /\ \A t \in CycleThrough(x) \cap Tasks : items[t].status \in NonTerminal)
          => CycleThrough(x) \cap Tasks \cap ReadyItems("") = {}

\* C26 as it holds: the tasks of a cycle are never ready as long as every
\* item on the cycle is unresolved, a task by a non-terminal stored status,
\* an epic by a non-terminal effective status.
C26_UnresolvedCycleNeverReady ==
    /\ C26_NoCycleDetection
    /\ \A x \in Rows :
          (/\ CycleThrough(x) # {}
           /\ \A y \in CycleThrough(x) : EffectiveStatus(y) \in NonTerminal)
          => CycleThrough(x) \cap Tasks \cap ReadyItems("") = {}

\* an open task and an open item depend on each other: the second edge closed
\* the cycle, and the task is not ready
C26_Witness ==
    \E a \in Tasks, b \in Rows :
        /\ a # b
        /\ deps = {<<a, b>>, <<b, a>>}
        /\ items[a].status = StatusOpen /\ EffectiveStatus(b) = StatusOpen
        /\ CycleThrough(a) = {a, b}
        /\ a \notin ReadyItems("") /\ b \notin ReadyItems("")

\* C27: ReadyItems never returns a task whose parent's effective status is
\* blocked.
C27_ReadyParentNotBlocked ==
    \A t \in ReadyItems("") :
        (items[t].parent_id # NoParent /\ items[t].parent_id \in Rows)
            => EffectiveStatus(items[t].parent_id) # StatusBlocked

\* the logs and dependencies held for the detail pane
HeldDetail == <<tui.detailLogs, tui.detailDeps>>

\* the logs and dependencies of item id in the database, the dependencies
\* in each order GetDeps may return them
DetailOf(id) == {<<GetLogs(id), got>> : got \in GetDeps(id)}

\* an item is under the cursor
HasSelection == Len(tui.filtered) > 0 /\ tui.cursor < Len(tui.filtered)

\* C28: stale-result rule. A detailMsg replaces the held logs and dependencies
\* only if its id is the ID of the item under the cursor when it is delivered;
\* a result loaded for an item that is no longer selected leaves the held
\* detail as it was, whatever the order of deliveries and cursor moves.
C28_StaleResultIgnored ==
    [][\A msg \in BagToSet(tui.pending) :
          DetailMsg(msg) =>
              IF HasSelection /\ Selected(tui) = msg.id
              THEN HeldDetail' = <<msg.logs, msg.deps>>
              ELSE HeldDetail' = HeldDetail]_vars

\* C28 witness: the detail of the selected item is held while the result of a
\* load made for another item is still to be delivered
C28_Witness ==
    /\ HasSelection
    /\ HeldDetail \in DetailOf(Selected(tui))
    /\ \E msg \in BagToSet(tui.pending) :
          msg.type = "detailMsg" /\ msg.id # Selected(tui)
                                 /\ <<msg.logs, msg.deps>> # HeldDetail

\* C29: after a WindowSizeMsg with a width of at least 80 columns is handled,
\* viewMode is ViewList: a resize to split-view width closes the full-screen
\* detail of the narrow terminal.
C29_ResizeClosesModal ==
    [][\A msg \in BagToSet(tui.pending) :
          (WindowSizeMsg(msg) /\ msg.width >= minSplitWidth)
              => tui'.viewMode = ViewList]_vars

\* C30: in split view, once every pending load has been delivered, the held
\* logs and dependencies are those of the item under the cursor.
C30_DetailFollowsSelection ==
    (tui.width >= minSplitWidth /\ tui.pending = EmptyBag /\ HasSelection)
        => HeldDetail \in DetailOf(Selected(tui))

\* C31: all read paths agree on status. For every item, GetItem(id).Status,
\* DeriveEpicStatus(id), the status the item carries in the results of
\* ListItemsFiltered, and the ItemStatus / DependsOnStatus that GetAllDeps
\* reports for it are equal. The calls are made without a filter and for all
\* projects: a filter or a project only leaves rows and edges out.
C31_ReadPathsAgree ==
    \A id \in Rows :
        /\ GetItem(id) = DeriveEpicStatus(id)
        /\ \A r \in ListItemsFiltered(ListFilter) : r[1] = id => r[2] = GetItem(id)
        /\ \A e \in GetAllDeps("") :
              /\ e.ItemID = id => e.ItemStatus = GetItem(id)
              /\ e.DependsOnID = id => e.DependsOnStatus = GetItem(id)

\* C31 witness: an epic whose derived status differs from its stored one is
\* listed and is at both ends of dependency edges
C31_Witness ==
    \E id \in Rows :
        /\ items[id].type = ItemTypeEpic
        /\ GetItem(id) # items[id].status
        /\ \E r \in ListItemsFiltered(ListFilter) : r[1] = id
        /\ \E e \in GetAllDeps("") : e.ItemID = id
        /\ \E e \in GetAllDeps("") : e.DependsOnID = id

\* seq holds the last completed items: the most recently updated items whose
\* effective status is done, at most three, most recent first
LastCompleted(seq) ==
    LET doneIDs == {r \in Rows : applyDerivedEpicStatus(r) = StatusDone}
        inSeq == {seq[i] : i \in 1..Len(seq)}
    IN /\ inSeq \subseteq doneIDs
       /\ Len(seq) = Cardinality(inSeq)
       /\ Len(seq) = (IF Cardinality(doneIDs) < RecentKeep
                      THEN Cardinality(doneIDs) ELSE RecentKeep)
       /\ \A i, j \in 1..Len(seq) :
             i < j => items[seq[i]].updated_at >= items[seq[j]].updated_at
       /\ \A r \in doneIDs \ inSeq : \A x \in inSeq :
             items[r].updated_at <= items[x].updated_at

\* C32: ProjectStatus.RecentDone holds the last completed items: the (at most
\* three) most recently updated items whose effective status is done, most
\* recent first, epics that are done by derivation included.
C32_RecentDoneIsLastCompleted ==
    /\ derived # NoResult => LastCompleted(derived)
    /\ \A seq \in RecentDone("") : LastCompleted(seq)

\* C33: the done action of the UI completes in_progress items only: when its
\* command writes status done, the stored status of the item is in_progress at
\* that time, also while an earlier action on the item is in flight or its
\* reload has not been delivered.
C33_DoneOnlyFromInProgress ==
    [][\A c \in BagToSet(tui.pending) :
          (/\ CmdUpdateStatusUpdate(c)
           /\ c.status = StatusDone
           /\ UpdateStatusUpdateErr(c.id) = Nil)
              => items[c.id].status = StatusInProgress]_vars

\* C38: cursor invariant of the UI. The cursor is 0 when the filtered list is
\* empty and within 0 .. len(filtered)-1 otherwise, after every key, reload
\* and filter change, so filtered[cursor] is in range for every action.
C38_CursorInRange ==
    /\ tui.cursor >= 0
    /\ Len(tui.filtered) = 0 => tui.cursor = 0
    /\ Len(tui.filtered) > 0 => tui.cursor < Len(tui.filtered)

\* C38 witness: in split view the cursor is on the last of two rows while a
\* reload that holds fewer rows is on its way
C38_Witness ==
    /\ tui.width >= minSplitWidth
    /\ tui.cursor = 1
    /\ Len(tui.filtered) = 2
    /\ \E msg \in BagToSet(tui.pending) : msg.type = "itemsMsg" /\ Len(msg.items) < 2

\* the store commands in flight, each with the number of its goroutines
StoreCmds(m) == [c \in {x \in BagToSet(m.pending) : x.type = "cmd"} |-> m.pending[c]]

\* C39: while a text input is active no key other than enter issues a store
\* command, the keys of one character, those of the actions among them, only
\* edit the text, and esc returns to InputNone with an empty text and no
\* command.
C39_InputTakesKeys ==
    [][\A msg \in BagToSet(tui.pending) :
          (tui.inputMode # InputNone /\ KeyMsg(msg)) =>
              /\ msg.key # "enter" => StoreCmds(tui') = StoreCmds(tui)
              /\ msg.key \in TextKeys =>
                    /\ tui'.inputText = Append(tui.inputText, msg.key)
                    /\ tui'.inputMode = tui.inputMode
              /\ msg.key = "esc" => /\ tui'.inputMode = InputNone /\ tui'.inputText = <<>>
                                     /\ tui'.pending = tui.pending (-) SetToBag({msg})]_vars

\* C39 witness: the start key and the done key were typed into the block
\* reason of a task in progress, and no store command is in flight
C39_Witness ==
    /\ tui.inputMode = InputBlock
    /\ tui.inputText = <<"s", "d">>
    /\ Len(tui.filtered) > 0
    /\ tui.filtered[tui.cursor + 1].Status = StatusInProgress
    /\ StoreCmds(tui) = StoreCmds(New)

\* a step keeps every force-closed epic closed
C34_StaysClosed ==
    items' # items =>
        \A e \in Epics :
            (items[e].status \in Terminal /\ e \in DOMAIN items') =>
                /\ items'[e].type = ItemTypeEpic
                /\ items'[e].status \in Terminal
                /\ DeriveEpicStatus(e)' \in Terminal

\* C34: a force-closed epic stays closed. Once the stored status of an epic is
\* done or canceled, no UpdateStatus, SetParent or AddDep call and no change of
\* a child's status makes its effective status non-terminal again; UpdateStatus
\* only switches it between done and canceled.
C34_ForceClosedStaysClosed ==
    /\ [](\A e \in Epics : items[e].status \in Terminal => DeriveEpicStatus(e) = items[e].status)
    /\ [][C34_StaysClosed]_vars

\* C34 witness: an epic stored done or canceled that has a child in progress
\* and depends on an item that is not resolved
C34_Witness ==
    \E e \in Epics :
        /\ items[e].status \in Terminal
        /\ \E c \in Children(e) : c # e /\ items[c].status = StatusInProgress
        /\ \E d \in deps : d[1] = e /\ d[2] \in Rows /\ ~Resolved(d[2])

\* the statuses stored for an epic that was created open
OpenOrClosed == {StatusOpen, StatusDone, StatusCanceled}

\* a step leaves the stored status of an epic among open, done and canceled
C35_EpicStatusStep ==
    items' # items =>
        \A e \in Epics :
            (items[e].status \in OpenOrClosed /\ e \in DOMAIN items') =>
                items'[e].status \in OpenOrClosed

\* C35: an epic created with status open has a stored status of open, done or
\* canceled from then on: no call stores in_progress, blocked or reviewing
\* for it.
C35_OpenEpicStoredStatus == [][C35_EpicStatusStep]_vars

\* C35 witness: an epic stored open whose status by derivation is in_progress,
\* and for which UpdateStatus refuses in_progress
C35_Witness ==
    \E e \in Epics :
        /\ items[e].status = StatusOpen
        /\ DeriveEpicStatus(e) = StatusInProgress
        /\ UpdateStatusErr(e, StatusInProgress) # Nil

\* a successful UpdateStatus(x, done) or UpdateStatus(x, canceled) keeps every
\* other ready item ready and gives no item an unmet dependency
C36_CompletionStep ==
    items' # items =>
        \A x \in IDs, s \in Terminal :
            UpdateStatusStored(x, s) =>
                /\ \A p \in Projects : ReadyItems(p) \ {x} \subseteq ReadyItems(p)'
                /\ \A y \in Rows : ~HasUnmetDeps(y) => ~HasUnmetDeps(y)'

\* C36: completing work never un-readies other work. A successful
\* UpdateStatus(x, done) or UpdateStatus(x, canceled) removes no item other
\* than x from ReadyItems and turns HasUnmetDeps from false to true for no item.
C36_CompletingKeepsReady == [][C36_CompletionStep]_vars

\* C36 witness: an item is ready although it depends on a task that was
\* completed or on an epic whose children were, next to it
C36_Witness ==
    \E d \in deps :
        /\ d[1] \in ReadyItems("")
        /\ d[2] \in Rows /\ d[2] # d[1]
        /\ \/ items[d[2]].status \in Terminal
           \/ /\ items[d[2]].type = ItemTypeEpic
              /\ \E c \in Children(d[2]) : c # d[1] /\ items[c].status = StatusCanceled

\* C37: AddDep(a, a) fails for every a, stored or not, and no item depends on
\* itself: the dependency graph has no self-edge.
C37_NoSelfEdge ==
    /\ \A a \in IDs : AddDepErr(a, a) # Nil
    /\ \A d \in deps : d[1] # d[2]

\* C37 witness: a stored item with a dependency on another item, for which
\* AddDep on itself is refused
C37_Witness ==
    \E a \in Rows :
        /\ AddDepErr(a, a) = "one or both items not found"
        /\ \E b \in Rows : b # a /\ <<a, b>> \in deps /\ AddDepErr(a, b) = Nil

====
